---------------------------- MODULE Spec2Model ----------------------------
(***************************************************************************)
(* Model of the weather-eval metrics resolution engine                     *)
(* (backend/app/weather_metrics.py, geo.py, main.py).                      *)
(*                                                                         *)
(* Representation choices                                                  *)
(*  - A Python / JSON value is a tagged record (None, int, float, str,      *)
(*    list, dict).  Strings are sequences of one-character strings so      *)
(*    that strip(), int(), float() and the date formatting are computed.   *)
(*  - A float is a fixed-point integer in thousandths ("milli").           *)
(*  - Positions lie on one meridian: lat and lon are grid indices, one     *)
(*    latitude step is one kilometre of great-circle distance, so that     *)
(*    haversine_km of two points of equal longitude is |lat1 - lat2|.      *)
(***************************************************************************)
EXTENDS Integers, Sequences, FiniteSets, TLC

VARIABLES
    disk,       \* processed-data directory: file name -> content or Absent
    settings,   \* app.config.settings (the fields get_metrics_store reads)
    today,      \* date.today().year
    cache,      \* lru_cache of get_metrics_store: NoStore or the MetricsStore
    built,      \* outcome of the last MetricsStore.from_processed_dir call
    last,       \* last request handled by metrics_for_point and its outcome
    prev,       \* the request handled before `last` when `last` repeats it
    h3_api,     \* the conversion routine the installed h3 package offers
    workers,    \* threadpool: thread -> its position in metrics_for_point
    history,    \* from_processed_dir runs (with the store object each made)
                \* and cache_clear() calls, in order
    cache_id,   \* lru_cache seen by the threads: index in history, 0 = empty
    job,        \* the data script that is running: its position and locals
    files       \* what the data scripts have put on disk and on the console

vars == <<disk, settings, today, cache, built, last, prev, h3_api,
          workers, history, cache_id, job, files>>

-----------------------------------------------------------------------------
(* Python values *)

PyNone == [t |-> "none"]
PyInt(n) == [t |-> "int", n |-> n]
PyFloat(m) == [t |-> "float", milli |-> m]
PyStr(s) == [t |-> "str", chars |-> s]
PyList(xs) == [t |-> "list", items |-> xs]
PyDict(f) == [t |-> "dict", fields |-> f]

\* outcome of a call: a value, or a raised exception
Ok(v) == [ok |-> TRUE, val |-> v]
Raise(e) == [ok |-> FALSE, err |-> e]

\* dict.get(key) and dict.get(key, default)
Get(d, key) == IF key \in DOMAIN d.fields THEN d.fields[key] ELSE PyNone
GetDefault(d, key, default) == IF key \in DOMAIN d.fields THEN d.fields[key] ELSE default

DigitChars == <<"0", "1", "2", "3", "4", "5", "6", "7", "8", "9">>
IsDigit(c) == \E i \in 1..10 : DigitChars[i] = c
DigitVal(c) == (CHOOSE i \in 1..10 : DigitChars[i] = c) - 1

RECURSIVE DigitsVal(_)
DigitsVal(s) ==
    IF s = <<>> THEN 0
    ELSE DigitsVal(SubSeq(s, 1, Len(s) - 1)) * 10 + DigitVal(s[Len(s)])

RECURSIVE NatChars(_)
NatChars(n) ==
    IF n < 10 THEN <<DigitChars[n + 1]>>
    ELSE NatChars(n \div 10) \o <<DigitChars[(n % 10) + 1]>>

IntChars(n) == IF n < 0 THEN <<"-">> \o NatChars(-n) ELSE NatChars(n)

RECURSIVE Zeros(_)
Zeros(k) == IF k <= 0 THEN <<>> ELSE <<"0">> \o Zeros(k - 1)

\* format(n, "0{width}d") for n >= 0: zero padded to at least `width` digits
PadInt(n, width) == Zeros(width - Len(NatChars(n))) \o NatChars(n)

RECURSIVE LStrip(_)
LStrip(s) == IF s # <<>> /\ Head(s) = " " THEN LStrip(Tail(s)) ELSE s

RECURSIVE RStrip(_)
RStrip(s) ==
    IF s # <<>> /\ s[Len(s)] = " " THEN RStrip(SubSeq(s, 1, Len(s) - 1)) ELSE s

\* str.strip()
Strip(s) == RStrip(LStrip(s))

AllDigits(s) == \A i \in 1..Len(s) : IsDigit(s[i])

\* truncation toward zero of a fixed-point value: int(float)
Trunc(milli) == IF milli >= 0 THEN milli \div 1000 ELSE -((-milli) \div 1000)

\* the digits of a literal whose sign was read
UnsignedInt(body, neg) ==
    IF body # <<>> /\ AllDigits(body)
    THEN Ok(IF neg THEN -DigitsVal(body) ELSE DigitsVal(body))
    ELSE Raise("ValueError")

SignedInt(t) ==
    IF t # <<>> /\ Head(t) = "-" THEN UnsignedInt(Tail(t), TRUE) ELSE UnsignedInt(t, FALSE)

\* int("...") on a string: blanks around, optional sign, one or more digits
ParseInt(s) == SignedInt(Strip(s))

\* integer part ip, fraction fp (of which three digits are kept)
FixedPoint(ip, fp, neg) ==
    IF AllDigits(ip) /\ AllDigits(fp) /\ Len(ip) + Len(fp) >= 1
    THEN Ok((IF neg THEN -1 ELSE 1)
            * (DigitsVal(ip) * 1000 + DigitsVal(SubSeq(fp \o <<"0", "0", "0">>, 1, 3))))
    ELSE Raise("ValueError")

SplitAtPoint(body, dots, neg) ==
    IF dots = {} THEN FixedPoint(body, <<>>, neg)
    ELSE IF Cardinality(dots) > 1 THEN Raise("ValueError")
    ELSE FixedPoint(SubSeq(body, 1, (CHOOSE i \in dots : TRUE) - 1),
                    SubSeq(body, (CHOOSE i \in dots : TRUE) + 1, Len(body)), neg)

UnsignedFloat(body, neg) ==
    SplitAtPoint(body, {i \in 1..Len(body) : body[i] = "."}, neg)

SignedFloat(t) ==
    IF t # <<>> /\ Head(t) = "-" THEN UnsignedFloat(Tail(t), TRUE)
    ELSE UnsignedFloat(t, FALSE)

\* float("...") on a string: blanks around, optional sign, digits with at
\* most one point
ParseFloat(s) == SignedFloat(Strip(s))

\* int(value)
int(v) ==
    CASE v.t = "int" -> Ok(v.n)
      [] v.t = "float" -> Ok(Trunc(v.milli))
      [] v.t = "str" -> ParseInt(v.chars)
      [] OTHER -> Raise("TypeError")

\* float(value), in thousandths
float(v) ==
    CASE v.t = "int" -> Ok(v.n * 1000)
      [] v.t = "float" -> Ok(v.milli)
      [] v.t = "str" -> ParseFloat(v.chars)
      [] OTHER -> Raise("TypeError")

FractionChars(fr) ==
    IF fr % 100 = 0 THEN NatChars(fr \div 100)
    ELSE IF fr % 10 = 0 THEN PadInt(fr \div 10, 2)
    ELSE PadInt(fr, 3)

\* repr of a float: integer part, point, fraction without trailing zeros
FloatChars(m) ==
    (IF m < 0 THEN <<"-">> ELSE <<>>)
    \o NatChars((IF m < 0 THEN -m ELSE m) \div 1000) \o <<".">>
    \o FractionChars((IF m < 0 THEN -m ELSE m) % 1000)

\* str(value)
str(v) ==
    CASE v.t = "str" -> v.chars
      [] v.t = "int" -> IntChars(v.n)
      [] v.t = "float" -> FloatChars(v.milli)
      [] v.t = "none" -> <<"N", "o", "n", "e">>
      [] v.t = "list" -> <<"[", "]">>
      [] OTHER -> <<"{", "}">>

-----------------------------------------------------------------------------
(* Files of the processed-data directory *)

StationIndexFile == "station_index.json"
LightningDailyFile == "lightning_h3_r7_daily.jsonl"
LightningMonthlyFile == "lightning_h3_r7_monthly.json"
LightningYearlyFile == "lightning_h3_r7_yearly.json"
CloudDailyFile == "cloud_station_daily.jsonl"
CloudMonthlyFile == "cloud_station_monthly.json"
CloudYearlyFile == "cloud_station_yearly.json"

\* in the order in which from_processed_dir reads them
FileOrder ==
    <<StationIndexFile, LightningDailyFile, LightningMonthlyFile, LightningYearlyFile,
      CloudDailyFile, CloudMonthlyFile, CloudYearlyFile>>

Files == {FileOrder[i] : i \in DOMAIN FileOrder}

\* content of a path: no file, text that is one JSON document, text that is
\* not JSON, or (for .jsonl) a sequence of lines
Absent == [kind |-> "absent"]
JsonText(v) == [kind |-> "json", doc |-> v]
NotJsonText == [kind |-> "notjson"]
LinesText(ls) == [kind |-> "lines", lines |-> ls]

\* one line of a .jsonl file, as read from the handle
JsonLine(v) == [kind |-> "json", doc |-> v]
NotJsonLine == [kind |-> "notjson"]
BlankLine == [kind |-> "blank"]

\* a dict as a function; d[k] = v
EmptyDict == <<>>
Put(d, k, v) == [x \in (DOMAIN d) \cup {k} |-> IF x = k THEN v ELSE d[x]]

\* variant: a missing path is opened without the exists() test
load_json_raising(content) ==
    IF content.kind = "absent" THEN Raise("FileNotFoundError")
    ELSE IF content.kind = "json" THEN Ok(content.doc)
    ELSE Raise("JSONDecodeError")

\* _load_json: None for a missing path, else json.loads of the whole text
load_json(content) ==
    IF content.kind = "absent" THEN Ok(PyNone)
    ELSE IF content.kind = "json" THEN Ok(content.doc)
    ELSE Raise("JSONDecodeError")

\* the loop of _load_jsonl: blank lines are skipped, json.loads(line) may
\* raise, only dicts are kept
RECURSIVE jsonl_rows(_, _)
jsonl_rows(lines, rows) ==
    IF lines = <<>> THEN Ok(rows)
    ELSE IF Head(lines).kind = "blank" THEN jsonl_rows(Tail(lines), rows)
    ELSE IF Head(lines).kind = "notjson" THEN Raise("JSONDecodeError")
    ELSE IF Head(lines).doc.t = "dict"
    THEN jsonl_rows(Tail(lines), Append(rows, Head(lines).doc))
    ELSE jsonl_rows(Tail(lines), rows)

\* variant: a missing path is opened without the exists() test
load_jsonl_raising(content) ==
    IF content.kind = "absent" THEN Raise("FileNotFoundError")
    ELSE jsonl_rows(content.lines, <<>>)

\* _load_jsonl: [] for a missing path
load_jsonl(content) ==
    IF content.kind = "absent" THEN Ok(<<>>) ELSE jsonl_rows(content.lines, <<>>)

\* as_float / as_int: the conversion, or None on TypeError / ValueError
Optional(r, wrapped) == IF r.ok THEN wrapped ELSE PyNone
as_float(v) == Optional(float(v), PyFloat(float(v).val))
as_int(v) == Optional(int(v), PyInt(int(v).val))

EmptyChars == PyStr(<<>>)

\* str(row.get(field, "")).strip()
Text(row, field) == Strip(str(GetDefault(row, field, EmptyChars)))

\* the rows of a JSON array, when the document is one
ArrayItems(raw) == IF raw.val.t = "list" THEN raw.val.items ELSE <<>>

station_checked(stations, station_id, name, lat, lon) ==
    IF station_id = <<>> \/ name = <<>> \/ lat = PyNone \/ lon = PyNone
    THEN stations
    ELSE Append(stations, [station_id |-> station_id, name |-> name,
                           lat |-> lat.milli, lon |-> lon.milli])

station_item(stations, item) ==
    IF item.t # "dict" THEN stations
    ELSE station_checked(stations, Text(item, "station_id"), Text(item, "name"),
                         as_float(Get(item, "lat")), as_float(Get(item, "lon")))

RECURSIVE station_rows(_, _)
station_rows(raw, stations) ==
    IF raw = <<>> THEN stations
    ELSE station_rows(Tail(raw), station_item(stations, Head(raw)))

station_index_of(raw) ==
    IF ~raw.ok THEN raw ELSE Ok(station_rows(ArrayItems(raw), <<>>))

\* _load_station_index
load_station_index(content) ==
    IF content.kind = "absent" THEN Ok(<<>>) ELSE station_index_of(load_json(content))

RECURSIVE lightning_daily_rows(_, _)
lightning_daily_checked(rest, out, h3_cell, date_str, strike_count) ==
    IF ~strike_count.ok THEN strike_count
    ELSE IF h3_cell = <<>> \/ date_str = <<>> THEN lightning_daily_rows(rest, out)
    ELSE lightning_daily_rows(rest, Put(out, <<h3_cell, date_str>>, strike_count.val))

lightning_daily_rows(rows, out) ==
    IF rows = <<>> THEN Ok(out)
    ELSE lightning_daily_checked(Tail(rows), out, Text(Head(rows), "h3"),
             Text(Head(rows), "date"),
             int(GetDefault(Head(rows), "strike_count", PyInt(0))))

lightning_daily_of(rows) ==
    IF ~rows.ok THEN rows ELSE lightning_daily_rows(rows.val, EmptyDict)

\* _load_lightning_daily
load_lightning_daily(content) == lightning_daily_of(load_jsonl(content))

lightning_monthly_checked(out, row, h3_cell, year, month) ==
    IF h3_cell = <<>> \/ year = PyNone \/ month = PyNone THEN out
    ELSE Put(out, <<h3_cell, year.n, month.n>>, row)

lightning_monthly_item(out, row) ==
    IF row.t # "dict" THEN out
    ELSE lightning_monthly_checked(out, row, Text(row, "h3"), as_int(Get(row, "year")),
                                   as_int(Get(row, "month")))

RECURSIVE lightning_monthly_rows(_, _)
lightning_monthly_rows(raw, out) ==
    IF raw = <<>> THEN out
    ELSE lightning_monthly_rows(Tail(raw), lightning_monthly_item(out, Head(raw)))

lightning_monthly_of(raw) ==
    IF ~raw.ok THEN raw ELSE Ok(lightning_monthly_rows(ArrayItems(raw), EmptyDict))

\* _load_lightning_monthly: the raw row is stored
load_lightning_monthly(content) == lightning_monthly_of(load_json(content))

lightning_yearly_checked(out, row, h3_cell, year) ==
    IF h3_cell = <<>> \/ year = PyNone THEN out ELSE Put(out, <<h3_cell, year.n>>, row)

lightning_yearly_item(out, row) ==
    IF row.t # "dict" THEN out
    ELSE lightning_yearly_checked(out, row, Text(row, "h3"), as_int(Get(row, "year")))

RECURSIVE lightning_yearly_rows(_, _)
lightning_yearly_rows(raw, out) ==
    IF raw = <<>> THEN out
    ELSE lightning_yearly_rows(Tail(raw), lightning_yearly_item(out, Head(raw)))

lightning_yearly_of(raw) ==
    IF ~raw.ok THEN raw ELSE Ok(lightning_yearly_rows(ArrayItems(raw), EmptyDict))

\* _load_lightning_yearly: the raw row is stored
load_lightning_yearly(content) == lightning_yearly_of(load_json(content))

cloud_daily_checked(out, station_id, date_str, cloud_mean_pct) ==
    IF station_id = <<>> \/ date_str = <<>> \/ cloud_mean_pct = PyNone THEN out
    ELSE Put(out, <<station_id, date_str>>, cloud_mean_pct.milli)

RECURSIVE cloud_daily_rows(_, _)
cloud_daily_rows(rows, out) ==
    IF rows = <<>> THEN out
    ELSE cloud_daily_rows(Tail(rows),
             cloud_daily_checked(out, Text(Head(rows), "station_id"),
                 Text(Head(rows), "date"), as_float(Get(Head(rows), "cloud_mean_pct"))))

cloud_daily_of(rows) ==
    IF ~rows.ok THEN rows ELSE Ok(cloud_daily_rows(rows.val, EmptyDict))

\* _load_cloud_daily
load_cloud_daily(content) == cloud_daily_of(load_jsonl(content))

cloud_monthly_checked(out, station_id, year, month, cloud_mean_pct) ==
    IF station_id = <<>> \/ year = PyNone \/ month = PyNone \/ cloud_mean_pct = PyNone
    THEN out
    ELSE Put(out, <<station_id, year.n, month.n>>, cloud_mean_pct.milli)

cloud_monthly_item(out, row) ==
    IF row.t # "dict" THEN out
    ELSE cloud_monthly_checked(out, Text(row, "station_id"), as_int(Get(row, "year")),
             as_int(Get(row, "month")), as_float(Get(row, "cloud_mean_pct")))

RECURSIVE cloud_monthly_rows(_, _)
cloud_monthly_rows(raw, out) ==
    IF raw = <<>> THEN out
    ELSE cloud_monthly_rows(Tail(raw), cloud_monthly_item(out, Head(raw)))

cloud_monthly_of(raw) ==
    IF ~raw.ok THEN raw ELSE Ok(cloud_monthly_rows(ArrayItems(raw), EmptyDict))

\* _load_cloud_monthly
load_cloud_monthly(content) == cloud_monthly_of(load_json(content))

cloud_yearly_checked(out, station_id, year, cloud_mean_pct) ==
    IF station_id = <<>> \/ year = PyNone \/ cloud_mean_pct = PyNone THEN out
    ELSE Put(out, <<station_id, year.n>>, cloud_mean_pct.milli)

cloud_yearly_item(out, row) ==
    IF row.t # "dict" THEN out
    ELSE cloud_yearly_checked(out, Text(row, "station_id"), as_int(Get(row, "year")),
             as_float(Get(row, "cloud_mean_pct")))

RECURSIVE cloud_yearly_rows(_, _)
cloud_yearly_rows(raw, out) ==
    IF raw = <<>> THEN out
    ELSE cloud_yearly_rows(Tail(raw), cloud_yearly_item(out, Head(raw)))

cloud_yearly_of(raw) ==
    IF ~raw.ok THEN raw ELSE Ok(cloud_yearly_rows(ArrayItems(raw), EmptyDict))

\* _load_cloud_yearly
load_cloud_yearly(content) == cloud_yearly_of(load_json(content))

\* the first exception of a series of outcomes, or FALSE
FirstRaised(outcomes) ==
    IF \A i \in DOMAIN outcomes : outcomes[i].ok THEN Ok(TRUE)
    ELSE outcomes[CHOOSE i \in DOMAIN outcomes :
                     ~outcomes[i].ok /\ \A j \in 1..(i - 1) : outcomes[j].ok]

\* cls(stations=..., ..., idw_max_distance_km=...)
MetricsStore(loaded, conf) ==
    IF ~FirstRaised(loaded).ok THEN FirstRaised(loaded)
    ELSE Ok([stations |-> loaded[1].val,
             lightning_daily |-> loaded[2].val,
             lightning_monthly |-> loaded[3].val,
             lightning_yearly |-> loaded[4].val,
             cloud_daily |-> loaded[5].val,
             cloud_monthly |-> loaded[6].val,
             cloud_yearly |-> loaded[7].val,
             start_year |-> conf.weather_start_year,
             h3_resolution |-> conf.weather_h3_resolution,
             bounds |-> <<conf.sweden_min_lat, conf.sweden_max_lat,
                          conf.sweden_min_lon, conf.sweden_max_lon>>,
             idw_power |-> conf.idw_power,
             idw_max_neighbors |-> conf.idw_max_neighbors,
             idw_max_distance_km |-> conf.idw_max_distance_km])

\* MetricsStore.from_processed_dir: the seven loaders in order; the first
\* exception aborts the construction
from_processed_dir(dir, conf) ==
    MetricsStore(<<load_station_index(dir[StationIndexFile]),
                   load_lightning_daily(dir[LightningDailyFile]),
                   load_lightning_monthly(dir[LightningMonthlyFile]),
                   load_lightning_yearly(dir[LightningYearlyFile]),
                   load_cloud_daily(dir[CloudDailyFile]),
                   load_cloud_monthly(dir[CloudMonthlyFile]),
                   load_cloud_yearly(dir[CloudYearlyFile])>>,
                 conf)

-----------------------------------------------------------------------------
(* Geometry, interpolation and the three series *)

Abs(x) == IF x < 0 THEN -x ELSE x
Min(a, b) == IF a < b THEN a ELSE b
Max(a, b) == IF a > b THEN a ELSE b

RECURSIVE Gcd(_, _)
Gcd(a, b) == IF b = 0 THEN a ELSE Gcd(b, a % b)

RECURSIVE Pow(_, _)
Pow(b, e) == IF e = 0 THEN 1 ELSE b * Pow(b, e - 1)

\* the multiple of ten nearest to rem / den above 10 * q, ties to the even q
RoundUp(q, rem, den) ==
    IF 2 * rem < 10 * den THEN 10 * q
    ELSE IF 2 * rem > 10 * den THEN 10 * (q + 1)
    ELSE IF q % 2 = 0 THEN 10 * q ELSE 10 * (q + 1)

\* round(num / den, 2) of a value in thousandths (den > 0)
Round2(num, den) ==
    RoundUp(num \div (10 * den), num - (num \div (10 * den)) * 10 * den, den)

\* haversine_km, in thousandths of a kilometre.  Along a meridian the
\* great-circle distance is the latitude difference (one grid step = 1 km);
\* for points of different longitude the two legs are added.
haversine_km(lat1, lon1, lat2, lon2) == Abs(lat2 - lat1) + Abs(lon2 - lon1)

\* cells of the hex grid: every CellSpan grid steps start a new cell
CellSpan == 2

\* latlng_to_h3_cell: str() of the cell index of the installed h3 API
latlng_to_h3_cell(api, lat, lon, resolution) ==
    IF api \in {"latlng_to_cell", "geo_to_h3"}
    THEN Ok(<<"h", DigitChars[resolution + 1]>>
            \o NatChars(lat \div (CellSpan * 1000)) \o <<"x">>
            \o NatChars(lon \div (CellSpan * 1000)))
    ELSE Raise("RuntimeError")

\* variant: no rectangle test
any_point_in_bounds(store, lat, lon) == TRUE

\* MetricsStore.is_point_in_bounds
is_point_in_bounds(store, lat, lon) ==
    /\ store.bounds[1] <= lat /\ lat <= store.bounds[2]
    /\ store.bounds[3] <= lon /\ lon <= store.bounds[4]

\* variant: a pair goes in front of the pairs that are as far
RECURSIVE InsertBeforeEqual(_, _)
InsertBeforeEqual(sorted, pair) ==
    IF sorted = <<>> THEN <<pair>>
    ELSE IF pair.distance <= Head(sorted).distance THEN <<pair>> \o sorted
    ELSE <<Head(sorted)>> \o InsertBeforeEqual(Tail(sorted), pair)

\* list.sort(key=distance) is stable: a pair goes behind every pair that is
\* not farther
RECURSIVE InsertByDistance(_, _)
InsertByDistance(sorted, pair) ==
    IF sorted = <<>> THEN <<pair>>
    ELSE IF pair.distance < Head(sorted).distance THEN <<pair>> \o sorted
    ELSE <<Head(sorted)>> \o InsertByDistance(Tail(sorted), pair)

RECURSIVE SortByDistance(_, _)
SortByDistance(pairs, sorted) ==
    IF pairs = <<>> THEN sorted
    ELSE SortByDistance(Tail(pairs), InsertByDistance(sorted, Head(pairs)))

\* MetricsStore._sorted_station_distances
sorted_station_distances(store, lat, lon) ==
    SortByDistance(
        [i \in 1..Len(store.stations) |->
            [station |-> store.stations[i],
             distance |-> haversine_km(lat, lon, store.stations[i].lat,
                                       store.stations[i].lon)]],
        <<>>)

\* lookup_fn(station_id): index.get((station_id,) + key)
Lookup(index, station_id, key) ==
    IF (<<station_id>> \o key) \in DOMAIN index
    THEN PyFloat(index[<<station_id>> \o key])
    ELSE PyNone

\* the loop of _idw_cloud_value: the co-located value, or the collected
\* (distance, value) pairs
RECURSIVE idw_collect(_, _, _, _, _)
idw_collected(store, station_distances, index, key, more) ==
    IF Len(more) >= store.idw_max_neighbors
    THEN [exact |-> FALSE, collected |-> more]
    ELSE idw_collect(store, Tail(station_distances), index, key, more)

\* variant: the value of a co-located station is rounded like a blend
idw_visit_rounded(store, station_distances, index, key, collected, value) ==
    IF value = PyNone
    THEN idw_collect(store, Tail(station_distances), index, key, collected)
    ELSE IF Head(station_distances).distance < 1
    THEN [exact |-> TRUE, value |-> PyFloat(Round2(value.milli, 1))]
    ELSE idw_collected(store, station_distances, index, key,
             Append(collected, [distance |-> Head(station_distances).distance,
                                value |-> value.milli]))

idw_visit(store, station_distances, index, key, collected, value) ==
    IF value = PyNone
    THEN idw_collect(store, Tail(station_distances), index, key, collected)
    ELSE IF Head(station_distances).distance < 1      \* distance < 1e-9 km
    THEN [exact |-> TRUE, value |-> value]
    ELSE idw_collected(store, station_distances, index, key,
             Append(collected, [distance |-> Head(station_distances).distance,
                                value |-> value.milli]))

\* variant: no maximum radius
idw_collect_any_distance(store, station_distances, index, key, collected) ==
    IF station_distances = <<>> THEN [exact |-> FALSE, collected |-> collected]
    ELSE idw_visit(store, station_distances, index, key, collected,
             Lookup(index, Head(station_distances).station.station_id, key))

idw_collect(store, station_distances, index, key, collected) ==
    IF station_distances = <<>> THEN [exact |-> FALSE, collected |-> collected]
    ELSE IF Head(station_distances).distance > store.idw_max_distance_km
    THEN [exact |-> FALSE, collected |-> collected]
    ELSE idw_visit(store, station_distances, index, key, collected,
             Lookup(index, Head(station_distances).station.station_id, key))

RECURSIVE GcdOfDistances(_)
GcdOfDistances(collected) ==
    IF collected = <<>> THEN 0
    ELSE Gcd(Head(collected).distance, GcdOfDistances(Tail(collected)))

\* the product of (distance / unit) ** power over all pairs but the i-th
RECURSIVE ProductOthers(_, _, _, _)
ProductOthers(collected, i, unit, power) ==
    IF collected = <<>> THEN 1
    ELSE (IF i = 1 THEN 1 ELSE Pow(Head(collected).distance \div unit, power))
         * ProductOthers(Tail(collected), i - 1, unit, power)

RECURSIVE WeightSum(_, _)
WeightSum(w, n) == IF n = 0 THEN 0 ELSE w[n] + WeightSum(w, n - 1)

RECURSIVE WeightedValueSum(_, _, _)
WeightedValueSum(w, collected, n) ==
    IF n = 0 THEN 0 ELSE w[n] * collected[n].value + WeightedValueSum(w, collected, n - 1)

\* variant: the weighted sum is not divided by the sum of the weights
idw_quotient_undivided(collected, w) ==
    PyFloat(Round2(WeightedValueSum(w, collected, Len(collected)), 1))

idw_quotient(collected, w) ==
    PyFloat(Round2(WeightedValueSum(w, collected, Len(collected)),
                   WeightSum(w, Len(collected))))

IntegerWeights(collected, unit, power) ==
    [i \in 1..Len(collected) |-> ProductOthers(collected, i, unit, power)]

\* variant: the plain mean of the collected values
idw_unweighted(collected, power) ==
    idw_quotient(collected, [i \in 1..Len(collected) |-> 1])

\* sum(w * value) / sum(w) with w = 1 / distance ** power, rounded to two
\* decimals.  The quotient does not change when every distance is divided by
\* their common divisor and every weight is multiplied by the product of all
\* distance ** power, which keeps the arithmetic in the integers.
idw_weighted(collected, power) ==
    idw_quotient(collected, IntegerWeights(collected, GcdOfDistances(collected), power))

\* variant: 0.0 instead of None when no station contributes
idw_result_zero_filled(store, got) ==
    IF got.exact THEN got.value
    ELSE IF got.collected = <<>> THEN PyFloat(0)
    ELSE idw_weighted(got.collected, store.idw_power)

idw_result(store, got) ==
    IF got.exact THEN got.value
    ELSE IF got.collected = <<>> THEN PyNone
    ELSE idw_weighted(got.collected, store.idw_power)

\* MetricsStore._idw_cloud_value
idw_cloud_value(store, station_distances, index, key) ==
    idw_result(store, idw_collect(store, station_distances, index, key, <<>>))

\* calendar.isleap and calendar.monthrange(year, month)[1]
isleap(year) == year % 4 = 0 /\ (year % 100 # 0 \/ year % 400 = 0)
mdays == <<31, 28, 31, 30, 31, 30, 31, 31, 30, 31, 30, 31>>
\* variant: no leap day
monthrange_days_common_year(year, month) == mdays[month]

monthrange_days(year, month) ==
    mdays[month] + (IF month = 2 /\ isleap(year) THEN 1 ELSE 0)

\* f"{year:04d}-{month:02d}-{day:02d}"
format_date(year, month, day) ==
    PadInt(year, 4) \o <<"-">> \o PadInt(month, 2) \o <<"-">> \o PadInt(day, 2)

\* DayMetric(date=..., cloud_mean_pct=..., lightning_count=...)
DayMetric(store, h3_cell, station_distances, date_str) ==
    [date |-> date_str,
     cloud_mean_pct |->
         idw_cloud_value(store, station_distances, store.cloud_daily, <<date_str>>),
     lightning_count |->
         IF <<h3_cell, date_str>> \in DOMAIN store.lightning_daily
         THEN store.lightning_daily[<<h3_cell, date_str>>] ELSE 0]

\* MetricsStore._build_daily_series
build_daily_series(store, h3_cell, station_distances, year, month) ==
    [day \in 1..monthrange_days(year, month) |->
        DayMetric(store, h3_cell, station_distances, format_date(year, month, day))]

EmptyRow == PyDict(<<>>)

\* index.get(key, {})
RowOrEmpty(index, key) == IF key \in DOMAIN index THEN index[key] ELSE EmptyRow

lightning_pair(lightning_count, lightning_probability) ==
    IF ~lightning_count.ok THEN lightning_count
    ELSE IF ~lightning_probability.ok THEN lightning_probability
    ELSE Ok([count |-> lightning_count.val, probability |-> lightning_probability.val])

\* int(lightning.get("strike_count", 0)), float(lightning.get("strike_probability", 0.0))
lightning_fields(lightning) ==
    lightning_pair(int(GetDefault(lightning, "strike_count", PyInt(0))),
                   float(GetDefault(lightning, "strike_probability", PyFloat(0))))

\* the first exception of a series of outcomes, or the series of values
Collected(outcomes) ==
    IF FirstRaised(outcomes).ok THEN Ok([i \in DOMAIN outcomes |-> outcomes[i].val])
    ELSE FirstRaised(outcomes)

\* MonthMetric(...)
MonthMetric(store, station_distances, year, month, fields) ==
    IF ~fields.ok THEN fields
    ELSE Ok([month |-> month,
             cloud_mean_pct |->
                 idw_cloud_value(store, station_distances, store.cloud_monthly,
                                 <<year, month>>),
             lightning_probability |-> fields.val.probability,
             lightning_count |-> fields.val.count])

\* variant: range(1, 12)
build_monthly_series_short(store, h3_cell, station_distances, year) ==
    Collected(
        [month \in 1..11 |->
            MonthMetric(store, station_distances, year, month,
                lightning_fields(RowOrEmpty(store.lightning_monthly,
                                            <<h3_cell, year, month>>)))])

\* MetricsStore._build_monthly_series
build_monthly_series(store, h3_cell, station_distances, year) ==
    Collected(
        [month \in 1..12 |->
            MonthMetric(store, station_distances, year, month,
                lightning_fields(RowOrEmpty(store.lightning_monthly,
                                            <<h3_cell, year, month>>)))])

\* YearMetric(...)
YearMetric(store, station_distances, year, fields) ==
    IF ~fields.ok THEN fields
    ELSE Ok([year |-> year,
             cloud_mean_pct |->
                 idw_cloud_value(store, station_distances, store.cloud_yearly, <<year>>),
             lightning_probability |-> fields.val.probability,
             lightning_count |-> fields.val.count])

\* variant: range(self.start_year + 1, end_year + 1)
yearly_range_after_start(store, h3_cell, station_distances, end_year) ==
    Collected(
        [i \in 1..(end_year - store.start_year) |->
            YearMetric(store, station_distances, store.start_year + i,
                lightning_fields(RowOrEmpty(store.lightning_yearly,
                                            <<h3_cell, store.start_year + i>>)))])

\* range(self.start_year, end_year + 1)
yearly_range(store, h3_cell, station_distances, end_year) ==
    Collected(
        [i \in 1..(end_year - store.start_year + 1) |->
            YearMetric(store, station_distances, store.start_year + i - 1,
                lightning_fields(RowOrEmpty(store.lightning_yearly,
                                            <<h3_cell, store.start_year + i - 1>>)))])

\* variants: no upper clamp; always up to the current year
end_year_not_capped(selected_year, start_year, current_year) ==
    Max(selected_year, start_year)
end_year_current(selected_year, start_year, current_year) == current_year

\* end_year = min(max(selected_year, self.start_year), current_year)
end_year_of(selected_year, start_year, current_year) ==
    Min(Max(selected_year, start_year), current_year)

\* MetricsStore._build_yearly_series
build_yearly_series(store, h3_cell, station_distances, selected_year, current_year) ==
    yearly_range(store, h3_cell, station_distances,
                 end_year_of(selected_year, store.start_year, current_year))

\* CloudInterpolationInfo of the nearest station, or None without stations
interpolation_info(station_distances) ==
    IF station_distances # <<>>
    THEN [nearest_station_name |-> station_distances[1].station.name,
          nearest_station_distance_km |-> Round2(station_distances[1].distance, 1)]
    ELSE PyNone

\* PointMetricsResponse(...)
PointMetricsResponse(lat, lon, h3_cell, info, days, months, years) ==
    IF ~months.ok THEN months
    ELSE IF ~years.ok THEN years
    ELSE Ok([point |-> [lat |-> lat, lon |-> lon, h3_r7 |-> h3_cell],
             cloud_interpolation |-> info,
             daily |-> days,
             monthly |-> months.val,
             yearly |-> years.val])

\* variant: the daily series is built for the current calendar year
query_series_of_today(store, lat, lon, year, month, current_year, h3_cell, station_distances) ==
    PointMetricsResponse(lat, lon, h3_cell, interpolation_info(station_distances),
        build_daily_series(store, h3_cell, station_distances, current_year, month),
        build_monthly_series(store, h3_cell, station_distances, year),
        build_yearly_series(store, h3_cell, station_distances, year, current_year))

query_series(store, lat, lon, year, month, current_year, h3_cell, station_distances) ==
    PointMetricsResponse(lat, lon, h3_cell, interpolation_info(station_distances),
        build_daily_series(store, h3_cell, station_distances, year, month),
        build_monthly_series(store, h3_cell, station_distances, year),
        build_yearly_series(store, h3_cell, station_distances, year, current_year))

query_cell(store, lat, lon, year, month, current_year, h3_cell) ==
    IF ~h3_cell.ok THEN h3_cell
    ELSE query_series(store, lat, lon, year, month, current_year, h3_cell.val,
                      sorted_station_distances(store, lat, lon))

\* MetricsStore.query
query(store, api, lat, lon, year, month, current_year) ==
    query_cell(store, lat, lon, year, month, current_year,
               latlng_to_h3_cell(api, lat, lon, store.h3_resolution))

-----------------------------------------------------------------------------
(* The HTTP handler and the memoized store *)

NoStore == [none |-> TRUE]
NotBuilt == [none |-> TRUE]
NoRequest == [status |-> 0]

\* a miss of the lru_cache: the construction's result is cached, an
\* exception is not
Memoized(made) ==
    [out |-> made, cache |-> IF made.ok THEN made.val ELSE NoStore, constructed |-> TRUE]

\* get_metrics_store under lru_cache
get_metrics_store(cached, dir, conf) ==
    IF cached # NoStore
    THEN [out |-> Ok(cached), cache |-> cached, constructed |-> FALSE]
    ELSE Memoized(from_processed_dir(dir, conf))

\* the response to a request whose point is in bounds
Answered(r) ==
    [status |-> IF r.ok THEN 200 ELSE 500,
     body |-> IF r.ok THEN r.val ELSE PyNone,
     error |-> IF r.ok THEN "" ELSE r.err,
     ran |-> <<"is_point_in_bounds", "query">>]

\* metrics_for_point, after get_metrics_store returned `store`
point_response(store, api, payload, current_year) ==
    IF ~is_point_in_bounds(store, payload.lat, payload.lon)
    THEN [status |-> 400, body |-> PyNone, error |-> "HTTPException",
          ran |-> <<"is_point_in_bounds">>]
    ELSE Answered(query(store, api, payload.lat, payload.lon, payload.year,
                        payload.month, current_year))

\* metrics_for_point
metrics_for_point(got, api, payload, current_year) ==
    IF ~got.out.ok
    THEN [status |-> 500, body |-> PyNone, error |-> got.out.err, ran |-> <<>>]
    ELSE point_response(got.out.val, api, payload, current_year)

-----------------------------------------------------------------------------
(* Bounded inputs: file contents, settings, request payloads *)

\* request years run from the schema's minimum up to MaxYear; the clock
\* starts in FirstToday and advances up to MaxToday
MinYear == 2023
MaxYear == 2026
FirstToday == 2024
MaxToday == 2025
\* grid steps of latitude a request may name: 0..MaxLatStep
MaxLatStep == 4

CellA == <<"h", "7", "0", "x", "0">>
CellB == <<"h", "7", "1", "x", "0">>
Date20250701 == <<"2", "0", "2", "5", "-", "0", "7", "-", "0", "1">>
Date20240229 == <<"2", "0", "2", "4", "-", "0", "2", "-", "2", "9">>
DateUnpadded == <<"2", "0", "2", "5", "-", "7", "-", "2">>
IdA == <<"9", "8">>
IdB == <<"7", "7">>

StationA ==
    PyDict([station_id |-> PyStr(IdA), name |-> PyStr(<<"A">>),
            lat |-> PyInt(2), lon |-> PyInt(1)])
StationB ==
    PyDict([station_id |-> PyInt(77), name |-> PyStr(<<"B", " ">>),
            lat |-> PyStr(<<"4", ".", "0">>), lon |-> PyFloat(1000)])
StationNoName == PyDict([station_id |-> PyStr(<<"5">>), lat |-> PyInt(1), lon |-> PyInt(1)])
StationBadLat ==
    PyDict([station_id |-> PyStr(<<"6">>), name |-> PyStr(<<"C">>),
            lat |-> PyStr(<<"x">>), lon |-> PyInt(1)])

\* a second entry for station 98, its id written as a number
StationAAgain ==
    PyDict([station_id |-> PyInt(98), name |-> PyStr(<<"A", "2">>),
            lat |-> PyInt(3), lon |-> PyInt(1)])

StationFiles ==
    {Absent,
     JsonText(PyList(<<StationA, StationB>>)),
     JsonText(PyList(<<StationA, StationAAgain>>)),
     JsonText(PyList(<<PyInt(5), StationNoName, StationBadLat, StationA>>)),
     JsonText(PyDict([stations |-> PyList(<<StationA>>)]))}

LDay(cell, date, count) ==
    PyDict([h3 |-> PyStr(cell), date |-> PyStr(date), strike_count |-> count])

LightningDailyGood ==
    LinesText(<<JsonLine(LDay(CellB, Date20250701, PyInt(2))), BlankLine,
                JsonLine(LDay(CellB, Date20240229, PyInt(5))),
                JsonLine(LDay(CellB, DateUnpadded, PyInt(9)))>>)
LightningDailyMessy ==
    LinesText(<<JsonLine(PyInt(3)),
                JsonLine(PyDict([date |-> PyStr(Date20250701), strike_count |-> PyInt(1)])),
                JsonLine(LDay(<<" ">> \o CellB, Date20250701, PyStr(<<"4">>))),
                JsonLine(PyDict([h3 |-> PyStr(CellA), date |-> PyStr(Date20250701)]))>>)
LightningDailyBadCount ==
    LinesText(<<JsonLine(LDay(CellB, Date20250701, PyInt(2))),
                JsonLine(LDay(CellB, Date20240229, PyStr(<<"x">>)))>>)
LightningDailyBadLine ==
    LinesText(<<JsonLine(LDay(CellB, Date20250701, PyInt(2))), NotJsonLine>>)

LightningDailyFiles ==
    {Absent, LightningDailyGood, LightningDailyMessy, LightningDailyBadCount,
     LightningDailyBadLine}

LMonth(cell, year, month, count, probability) ==
    PyDict([h3 |-> PyStr(cell), year |-> year, month |-> month,
            strike_count |-> count, strike_probability |-> probability])

LightningMonthlyGood ==
    JsonText(PyList(<<LMonth(CellB, PyInt(2025), PyInt(7), PyInt(7), PyFloat(65)),
                      LMonth(CellB, PyStr(<<"2", "0", "2", "4">>), PyFloat(2000),
                             PyStr(<<"3">>), PyStr(<<".", "0", "3", "4">>))>>))
LightningMonthlyMessy ==
    JsonText(PyList(<<PyNone,
                      LMonth(CellB, PyStr(<<"2", "0", "x", "5">>), PyInt(7), PyInt(1), PyFloat(1)),
                      PyDict([h3 |-> PyStr(CellB), year |-> PyInt(2025)]),
                      PyDict([h3 |-> PyStr(CellB), year |-> PyInt(2025), month |-> PyInt(7)]),
                      LMonth(CellA, PyInt(2025), PyInt(7), PyInt(7), PyFloat(65))>>))
LightningMonthlyNullCount ==
    JsonText(PyList(<<LMonth(CellB, PyInt(2025), PyInt(7), PyNone, PyFloat(65))>>))

LightningMonthlyFiles ==
    {Absent, LightningMonthlyGood, LightningMonthlyMessy, LightningMonthlyNullCount}

LYear(cell, year, count, probability) ==
    PyDict([h3 |-> PyStr(cell), year |-> year,
            strike_count |-> count, strike_probability |-> probability])

LightningYearlyGood ==
    JsonText(PyList(<<LYear(CellB, PyInt(2025), PyInt(7), PyFloat(5)),
                      LYear(CellB, PyInt(2024), PyInt(3), PyFloat(3))>>))
LightningYearlyTextProbability ==
    JsonText(PyList(<<LYear(CellB, PyInt(2025), PyInt(7), PyStr(<<"x">>))>>))

LightningYearlyFiles ==
    {Absent, LightningYearlyGood, LightningYearlyTextProbability, NotJsonText}

CDay(id, date, pct) ==
    PyDict([station_id |-> id, date |-> PyStr(date), cloud_mean_pct |-> pct])

CloudDailyGood ==
    LinesText(<<JsonLine(CDay(PyStr(IdA), Date20250701, PyFloat(80000))),
                JsonLine(CDay(PyStr(IdB), Date20250701, PyFloat(60000))),
                JsonLine(CDay(PyStr(IdB), Date20240229, PyInt(45)))>>)
CloudDailyMessy ==
    LinesText(<<BlankLine, JsonLine(PyList(<<>>)),
                JsonLine(CDay(PyStr(IdA), Date20250701, PyStr(<<"a", "b", "c">>))),
                JsonLine(CDay(PyInt(98), Date20250701, PyStr(<<"1", "2", ".", "5">>)))>>)

CloudDailyFiles == {Absent, CloudDailyGood, CloudDailyMessy}

CMonth(id, year, month, pct) ==
    PyDict([station_id |-> PyStr(id), year |-> year, month |-> month,
            cloud_mean_pct |-> pct])

CloudMonthlyGood ==
    JsonText(PyList(<<CMonth(IdA, PyInt(2025), PyInt(7), PyFloat(72500)),
                      CMonth(IdB, PyInt(2025), PyInt(7), PyFloat(52500)),
                      CMonth(IdB, PyInt(2024), PyInt(2), PyFloat(10000))>>))
CloudMonthlyMessy ==
    JsonText(PyList(<<CMonth(IdA, PyInt(2025), PyInt(7), PyNone),
                      CMonth(IdA, PyInt(2025), PyNone, PyFloat(1000)),
                      CMonth(IdA, PyInt(2025), PyInt(8), PyFloat(30000))>>))

CloudMonthlyFiles == {Absent, CloudMonthlyGood, CloudMonthlyMessy}

CYear(id, year, pct) ==
    PyDict([station_id |-> PyStr(id), year |-> year, cloud_mean_pct |-> pct])

CloudYearlyGood ==
    JsonText(PyList(<<CYear(IdA, PyInt(2025), PyFloat(69000)),
                      CYear(IdB, PyInt(2025), PyFloat(49000)),
                      CYear(IdA, PyInt(2023), PyFloat(20000))>>))
CloudYearlyMessy ==
    JsonText(PyList(<<CYear(<<>>, PyInt(2025), PyFloat(69000)),
                      CYear(IdB, PyInt(2025), PyList(<<>>)),
                      CYear(IdB, PyInt(2024), PyFloat(33000))>>))

CloudYearlyFiles == {Absent, CloudYearlyGood, CloudYearlyMessy}

Directory(st, ld, lm, ly, cd, cm, cy) ==
    [f \in Files |->
        CASE f = StationIndexFile -> st
          [] f = LightningDailyFile -> ld
          [] f = LightningMonthlyFile -> lm
          [] f = LightningYearlyFile -> ly
          [] f = CloudDailyFile -> cd
          [] f = CloudMonthlyFile -> cm
          [] OTHER -> cy]

EmptyDirectory == [f \in Files |-> Absent]
SampleDirectory ==
    Directory(JsonText(PyList(<<StationA, StationB>>)), LightningDailyGood,
              LightningMonthlyGood, LightningYearlyGood, CloudDailyGood,
              CloudMonthlyGood, CloudYearlyGood)
SparseDirectory ==
    Directory(JsonText(PyList(<<StationA, StationB>>)), LightningDailyGood,
              Absent, Absent, Absent, CloudMonthlyMessy, CloudYearlyMessy)
NullCountDirectory ==
    Directory(JsonText(PyList(<<StationA, StationB>>)), LightningDailyMessy,
              LightningMonthlyNullCount, LightningYearlyTextProbability, CloudDailyMessy,
              CloudMonthlyGood, CloudYearlyGood)

\* the sample data with the stations listed in the other order
ReversedDirectory ==
    Directory(JsonText(PyList(<<StationB, StationA>>)), LightningDailyGood,
              LightningMonthlyGood, LightningYearlyGood, CloudDailyGood,
              CloudMonthlyGood, CloudYearlyGood)

\* stations A and C three grid steps apart and station D as far from the
\* point between them as C is, with cloud values of two and of three decimals
IdC == <<"5", "5">>
StationC ==
    PyDict([station_id |-> PyStr(IdC), name |-> PyStr(<<"C">>),
            lat |-> PyInt(5), lon |-> PyInt(1)])
IdD == <<"4", "4">>
StationD ==
    PyDict([station_id |-> PyStr(IdD), name |-> PyStr(<<"D">>),
            lat |-> PyInt(1), lon |-> PyInt(1)])
CloudDailyBlend ==
    LinesText(<<JsonLine(CDay(PyStr(IdD), Date20250701, PyFloat(10000))),
                JsonLine(CDay(PyStr(IdA), Date20250701, PyFloat(80000))),
                JsonLine(CDay(PyStr(IdC), Date20250701, PyFloat(60000))),
                JsonLine(CDay(PyStr(IdA), Date20240229, PyFloat(50010))),
                JsonLine(CDay(PyStr(IdC), Date20240229, PyFloat(50000)))>>)
CloudMonthlyBlend ==
    JsonText(PyList(<<CMonth(IdA, PyInt(2025), PyInt(7), PyFloat(50004)),
                      CMonth(IdC, PyInt(2025), PyInt(7), PyFloat(50004)),
                      CMonth(IdA, PyInt(2024), PyInt(2), PyFloat(12345))>>))
CloudYearlyBlend ==
    JsonText(PyList(<<CYear(IdA, PyInt(2025), PyFloat(69000)),
                      CYear(IdC, PyInt(2025), PyFloat(49000)),
                      CYear(IdC, PyInt(2024), PyFloat(33000))>>))
BlendDirectory ==
    Directory(JsonText(PyList(<<StationC, StationA, StationD>>)), LightningDailyGood,
              LightningMonthlyGood, LightningYearlyGood, CloudDailyBlend,
              CloudMonthlyBlend, CloudYearlyBlend)

\* stations B, A and E, listed in this order, all one grid step from the
\* point (3, 1), each with a value for the same day
IdE == <<"3", "3">>
StationE ==
    PyDict([station_id |-> PyStr(IdE), name |-> PyStr(<<"E">>),
            lat |-> PyInt(3), lon |-> PyInt(2)])
CloudDailyTie ==
    LinesText(<<JsonLine(CDay(PyStr(IdE), Date20250701, PyFloat(10000))),
                JsonLine(CDay(PyStr(IdA), Date20250701, PyFloat(80000))),
                JsonLine(CDay(PyStr(IdB), Date20250701, PyFloat(60000)))>>)
TieDirectory ==
    Directory(JsonText(PyList(<<StationB, StationA, StationE>>)), LightningDailyGood,
              LightningMonthlyGood, LightningYearlyGood, CloudDailyTie,
              CloudMonthlyGood, CloudYearlyGood)

\* the directories the server is started on
ServedDirectories ==
    {EmptyDirectory, SampleDirectory, SparseDirectory, NullCountDirectory,
     BlendDirectory, TieDirectory}

\* settings: the region is the rectangle of grid steps 1..3 x 1..2, the
\* interpolation radius is 2 km with at most 2 neighbours
SettingsWith(start_year) ==
    [weather_start_year |-> start_year,
     weather_h3_resolution |-> 7,
     sweden_min_lat |-> 1000, sweden_max_lat |-> 3000,
     sweden_min_lon |-> 1000, sweden_max_lon |-> 2000,
     idw_power |-> 2, idw_max_neighbors |-> 2, idw_max_distance_km |-> 2000]

StartYears == MinYear..MaxToday

\* PointMetricsRequest: the payloads the handler is called with
Points == {<<1000 * i, 1000>> : i \in 0..MaxLatStep} \cup {<<2000, 0>>}
Payloads ==
    {[lat |-> pt[1], lon |-> pt[2], year |-> y, month |-> m] :
        pt \in Points, y \in MinYear..MaxYear, m \in 1..12}

-----------------------------------------------------------------------------
(* The server: one request at a time *)

\* no thread of the pool is used
NoThreads == workers = <<>> /\ history = <<>> /\ cache_id = 0

\* no data script is running
NoJob == [pc |-> "none"]
NoScript == job = NoJob /\ files = <<>>

Init ==
    /\ disk \in ServedDirectories
    /\ settings \in {SettingsWith(y) : y \in StartYears}
    /\ today = FirstToday
    /\ cache = NoStore
    /\ built = NotBuilt
    /\ last = NoRequest
    /\ prev = NoRequest
    /\ h3_api = "latlng_to_cell"
    /\ NoThreads
    /\ NoScript

Recorded(payload, got, response) ==
    /\ cache' = got.cache
    /\ built' = IF got.constructed THEN got.out ELSE built
    /\ last' = [payload |-> payload, at |-> today, status |-> response.status,
                body |-> response.body, error |-> response.error,
                ran |-> response.ran]

Handled(payload, got) ==
    Recorded(payload, got, metrics_for_point(got, h3_api, payload, today))

\* metrics_for_point(payload), from get_metrics_store() to the response
Serve(payload) == Handled(payload, get_metrics_store(cache, disk, settings))

\* the first request of a run
Request ==
    /\ last = NoRequest
    /\ \E payload \in Payloads :
        /\ Serve(payload)
        /\ prev' = NoRequest
        /\ UNCHANGED <<disk, settings, today, h3_api, workers, history, cache_id, job, files>>

\* a second request for the point and year of the first one, when that was
\* not rejected: for the same month or for the month after it
RequestAgain ==
    /\ last # NoRequest
    /\ last.status # 400
    /\ prev = NoRequest
    /\ \E month \in {last.payload.month, (last.payload.month % 12) + 1} :
        /\ Serve([last.payload EXCEPT !.month = month])
        /\ prev' = last
        /\ UNCHANGED <<disk, settings, today, h3_api, workers, history, cache_id, job, files>>

\* New Year: date.today().year advances
NewYear ==
    /\ prev = NoRequest
    /\ today < MaxToday
    /\ today' = today + 1
    /\ UNCHANGED <<disk, settings, cache, built, last, prev, h3_api, workers,
                   history, cache_id, job, files>>

Next == Request \/ RequestAgain \/ NewYear

Spec == Init /\ [][Next]_vars

\* the h3 package installed: version 4 (latlng_to_cell), version 3
\* (geo_to_h3), or one that has neither function
H3Packages == {"latlng_to_cell", "geo_to_h3", "neither"}

\* process start with any of the h3 packages installed
InitH3 ==
    /\ disk \in ServedDirectories
    /\ settings = SettingsWith(MinYear)
    /\ today = FirstToday
    /\ cache = NoStore
    /\ built = NotBuilt
    /\ last = NoRequest
    /\ prev = NoRequest
    /\ h3_api \in H3Packages
    /\ NoThreads
    /\ NoScript

SpecH3 == InitH3 /\ [][Next]_vars

\* the neighbour counts the store is configured with
MaxNeighbors == 3
NeighborCounts == 0..MaxNeighbors

\* process start with any configured idw_max_neighbors
InitNeighbors ==
    /\ disk \in {SampleDirectory, BlendDirectory}
    /\ \E n \in NeighborCounts :
           settings = [SettingsWith(MinYear) EXCEPT !.idw_max_neighbors = n]
    /\ today = FirstToday
    /\ cache = NoStore
    /\ built = NotBuilt
    /\ last = NoRequest
    /\ prev = NoRequest
    /\ h3_api = "latlng_to_cell"
    /\ NoThreads
    /\ NoScript

SpecNeighbors == InitNeighbors /\ [][Next]_vars

-----------------------------------------------------------------------------
(* The loader alone: every combination of file contents *)

InitLoader ==
    /\ \E st \in StationFiles, ld \in LightningDailyFiles, lm \in LightningMonthlyFiles,
          ly \in LightningYearlyFiles, cd \in CloudDailyFiles, cm \in CloudMonthlyFiles,
          cy \in CloudYearlyFiles :
            disk = Directory(st, ld, lm, ly, cd, cm, cy)
    /\ settings = SettingsWith(MinYear)
    /\ today = FirstToday
    /\ cache = NoStore
    /\ built = NotBuilt
    /\ last = NoRequest
    /\ prev = NoRequest
    /\ h3_api = "latlng_to_cell"
    /\ NoThreads
    /\ NoScript

\* the first get_metrics_store() of the process
Construct ==
    /\ built = NotBuilt
    /\ cache' = get_metrics_store(cache, disk, settings).cache
    /\ built' = get_metrics_store(cache, disk, settings).out
    /\ UNCHANGED <<disk, settings, today, last, prev, h3_api, workers, history,
                   cache_id, job, files>>

NextLoader == Construct

SpecLoader == InitLoader /\ [][NextLoader]_vars


-----------------------------------------------------------------------------
(* The threadpool: metrics_for_point running on several threads *)

\* two threads of the pool
Threads == {1, 2}

\* calls of metrics_for_point and of cache_clear() in one run
MaxCalls == 3
MaxClears == 1

\* a thread that has not entered metrics_for_point yet
IdleWorker(calls) ==
    [pc |-> "idle", calls |-> calls, payload |-> PyNone, store |-> 0, cell |-> <<>>,
     station_distances |-> <<>>, response |-> NoRequest]

CallsMade == workers[1].calls + workers[2].calls

ClearsMade == Cardinality({i \in DOMAIN history : history[i].op = "cache_clear"})

\* the directories and requests of the threaded runs
StartDirectory == ReversedDirectory
RewrittenDirectory == SampleDirectory
ThreadPayloads ==
    {[lat |-> 1000 * i, lon |-> 1000, year |-> MaxToday, month |-> 7] : i \in {0, 2, 3}}

InitThreads ==
    /\ disk = StartDirectory
    /\ settings = SettingsWith(MinYear)
    /\ today = MaxToday
    /\ cache = NoStore
    /\ built = NotBuilt
    /\ last = NoRequest
    /\ prev = NoRequest
    /\ h3_api = "latlng_to_cell"
    /\ workers = [t \in Threads |-> IdleWorker(0)]
    /\ history = <<>>
    /\ cache_id = 0
    /\ NoScript

\* the store object a thread works on
StoreOf(w) == history[w.store].out.val

\* variant: a cache that never hits
lru_never_hit(cached) == FALSE

\* the lru_cache wrapper's lookup: a hit when the key is in the cache
lru_hit(cached) == cached # 0

\* the lru_cache wrapper after the wrapped function returned: an entry that
\* another thread made in the meantime is kept, the caller still gets its own
\* result
lru_kept(cached, made) == IF cached # 0 THEN cached ELSE made

\* store = get_metrics_store(): the cache lookup
Call(t) ==
    /\ workers[t].pc \in {"idle", "done"}
    /\ CallsMade < MaxCalls
    /\ \E payload \in ThreadPayloads :
        workers' = [workers EXCEPT ![t] =
                       [pc |-> IF lru_hit(cache_id) THEN "store" ELSE "miss",
                        calls |-> workers[t].calls + 1, payload |-> payload,
                        store |-> cache_id, cell |-> <<>>, station_distances |-> <<>>,
                        response |-> NoRequest]]
    /\ UNCHANGED <<disk, settings, today, cache, built, last, prev, h3_api, history,
                   cache_id, job, files>>

Loaded(t, made, id) ==
    /\ history' = Append(history, [op |-> "load", dir |-> disk, out |-> made])
    /\ cache_id' = IF made.ok THEN lru_kept(cache_id, id) ELSE cache_id
    /\ workers' = [workers EXCEPT
                      ![t].pc = IF made.ok THEN "store" ELSE "done",
                      ![t].store = IF made.ok THEN id ELSE 0,
                      ![t].response =
                          IF made.ok THEN NoRequest
                          ELSE [status |-> 500, body |-> PyNone, error |-> made.err,
                                ran |-> <<>>]]

\* store = get_metrics_store(): after a miss the wrapped function runs
\* outside the cache's lock, then its result is entered
Load(t) ==
    /\ workers[t].pc = "miss"
    /\ Loaded(t, from_processed_dir(disk, settings), Len(history) + 1)
    /\ UNCHANGED <<disk, settings, today, cache, built, last, prev, h3_api, job, files>>

\* variant: the station list itself is sorted by distance (self.stations.sort)
stations_sorted_in_place(store, lat, lon) ==
    [i \in DOMAIN sorted_station_distances(store, lat, lon) |->
        sorted_station_distances(store, lat, lon)[i].station]

\* self.stations after _sorted_station_distances: the pairs are a new list,
\* and that list is the one sorted
stations_after_sort(store, lat, lon) == store.stations

Located(w, h3_cell, station_distances) ==
    IF w.pc = "done" THEN w
    ELSE IF ~h3_cell.ok THEN [w EXCEPT !.pc = "done", !.response = Answered(h3_cell)]
    ELSE [w EXCEPT !.pc = "located", !.cell = h3_cell.val,
                   !.station_distances = station_distances]

\* if not store.is_point_in_bounds(...): raise HTTPException(400)
Checked(w, store) ==
    IF is_point_in_bounds(store, w.payload.lat, w.payload.lon) THEN w
    ELSE [w EXCEPT !.pc = "done",
                   !.response = point_response(store, h3_api, w.payload, today)]

Locating(t, w, store) ==
    /\ workers' = [workers EXCEPT ![t] =
           Located(Checked(w, store), latlng_to_h3_cell(h3_api, w.payload.lat, w.payload.lon,
                                        store.h3_resolution),
                   sorted_station_distances(store, w.payload.lat, w.payload.lon))]
    /\ history' = [history EXCEPT ![w.store].out.val.stations =
                      IF Checked(w, store).pc = "done" THEN @
                      ELSE stations_after_sort(store, w.payload.lat, w.payload.lon)]

\* the bounds check, then query: the hex cell and the station distances
Locate(t) ==
    /\ workers[t].pc = "store"
    /\ Locating(t, workers[t], StoreOf(workers[t]))
    /\ UNCHANGED <<disk, settings, today, cache, built, last, prev, h3_api, cache_id, job, files>>

Answering(t, w, store) ==
    workers' = [workers EXCEPT
        ![t].pc = "done",
        ![t].response =
            Answered(query_series(store, w.payload.lat, w.payload.lon, w.payload.year,
                                  w.payload.month, today, w.cell, w.station_distances))]

\* query: the three series and the response
Series(t) ==
    /\ workers[t].pc = "located"
    /\ Answering(t, workers[t], StoreOf(workers[t]))
    /\ UNCHANGED <<disk, settings, today, cache, built, last, prev, h3_api, history,
                   cache_id, job, files>>

\* the processed files are replaced, or settings.processed_data_dir is
\* pointed at another directory
Rewrite ==
    /\ disk = StartDirectory
    /\ disk' = RewrittenDirectory
    /\ UNCHANGED <<settings, today, cache, built, last, prev, h3_api, workers, history,
                   cache_id, job, files>>

\* get_metrics_store.cache_clear()
CacheClear ==
    /\ ClearsMade < MaxClears
    /\ history' = Append(history, [op |-> "cache_clear"])
    /\ cache_id' = 0
    /\ UNCHANGED <<disk, settings, today, cache, built, last, prev, h3_api, workers, job, files>>

NextThreads ==
    \/ \E t \in Threads :
          Call(t) \/ Load(t) \/ Locate(t) \/ Series(t)
    \/ Rewrite
    \/ CacheClear

SpecThreads == InitThreads /\ [][NextThreads]_vars

-----------------------------------------------------------------------------
(* Properties of the request handler (specification Spec) *)

\* a request was handled and answered with a response body
Answered200(r) == r # NoRequest /\ r.status = 200

\* the configured rectangle, read off the settings
InRectangle(payload) ==
    /\ settings.sweden_min_lat <= payload.lat /\ payload.lat <= settings.sweden_max_lat
    /\ settings.sweden_min_lon <= payload.lon /\ payload.lon <= settings.sweden_max_lon

\* C1: a request for a point outside the configured rectangle is answered
\* with HTTP 400 without a body and MetricsStore.query is not called for it;
\* query runs only for points inside the rectangle.
C1_OutOfBoundsRejectedBeforeQuery ==
    (last # NoRequest /\ cache # NoStore) =>
        /\ ~InRectangle(last.payload) =>
              /\ last.status = 400
              /\ last.body = PyNone
              /\ last.ran = <<"is_point_in_bounds">>
        /\ (\E i \in DOMAIN last.ran : last.ran[i] = "query") => InRectangle(last.payload)

C1_Witness ==
    /\ last # NoRequest
    /\ last.payload.lat = 2000 /\ last.payload.lon = 0
    /\ last.status = 400
    /\ cache # NoStore /\ cache.stations # <<>>

\* no station of the store has a value under `key` in the cloud index
NoCloudValue(store, index, key) ==
    \A i \in DOMAIN store.stations :
        (<<store.stations[i].station_id>> \o key) \notin DOMAIN index

ZeroFilled(entry) == entry.lightning_count = 0 /\ entry.lightning_probability = 0

DailyFilled(store, cell, entry) ==
    /\ <<cell, entry.date>> \notin DOMAIN store.lightning_daily => entry.lightning_count = 0
    /\ NoCloudValue(store, store.cloud_daily, <<entry.date>>) => entry.cloud_mean_pct = PyNone

MonthlyFilled(store, cell, year, entry) ==
    /\ <<cell, year, entry.month>> \notin DOMAIN store.lightning_monthly => ZeroFilled(entry)
    /\ NoCloudValue(store, store.cloud_monthly, <<year, entry.month>>) =>
           entry.cloud_mean_pct = PyNone

YearlyFilled(store, cell, entry) ==
    /\ <<cell, entry.year>> \notin DOMAIN store.lightning_yearly => ZeroFilled(entry)
    /\ NoCloudValue(store, store.cloud_yearly, <<entry.year>>) => entry.cloud_mean_pct = PyNone

AllFilled(store, request, body) ==
    /\ \A i \in DOMAIN body.daily : DailyFilled(store, body.point.h3_r7, body.daily[i])
    /\ \A i \in DOMAIN body.monthly :
           MonthlyFilled(store, body.point.h3_r7, request.year, body.monthly[i])
    /\ \A i \in DOMAIN body.yearly : YearlyFilled(store, body.point.h3_r7, body.yearly[i])

\* C2: in every response, an entry without a lightning record for its
\* (cell, time key) has lightning_count 0 and lightning_probability 0.0, and
\* an entry for whose key no station has a cloud value has cloud_mean_pct
\* None.
C2_LightningZeroFilledCloudNullFilled ==
    Answered200(last) => AllFilled(cache, last.payload, last.body)

C2_Witness ==
    /\ Answered200(last)
    /\ \E i \in DOMAIN last.body.daily :
          /\ last.body.daily[i].cloud_mean_pct = PyNone
          /\ last.body.daily[i].lightning_count = 0
    /\ \E i \in DOMAIN last.body.daily : last.body.daily[i].cloud_mean_pct # PyNone
    /\ \E i \in DOMAIN last.body.monthly :
          /\ last.body.monthly[i].lightning_count > 0
          /\ last.body.monthly[i].cloud_mean_pct # PyNone
    /\ \E i \in DOMAIN last.body.monthly :
          /\ ZeroFilled(last.body.monthly[i])
          /\ last.body.monthly[i].cloud_mean_pct = PyNone
    /\ \E i \in DOMAIN last.body.yearly :
          /\ last.body.yearly[i].lightning_count = 0
          /\ last.body.yearly[i].lightning_probability = 0
          /\ last.body.yearly[i].cloud_mean_pct # PyNone

\* the entry of month `month` holds the record of (cell, year, month)
MonthOfYear(store, cell, year, entry) ==
    <<cell, year, entry.month>> \in DOMAIN store.lightning_monthly =>
        /\ PyInt(entry.lightning_count) =
               as_int(Get(store.lightning_monthly[<<cell, year, entry.month>>],
                          "strike_count"))
        /\ PyFloat(entry.lightning_probability) =
               as_float(Get(store.lightning_monthly[<<cell, year, entry.month>>],
                            "strike_probability"))

TwelveMonths(store, request, body) ==
    /\ Len(body.monthly) = 12
    /\ \A i \in 1..12 : body.monthly[i].month = i
    /\ \A i \in 1..12 :
           MonthOfYear(store, body.point.h3_r7, request.year, body.monthly[i])

\* C3: the monthly series of every response has 12 entries with month =
\* 1, ..., 12 in order, holding the records of the requested year, and two
\* requests that differ only in the month get the same monthly series.
C3_MonthlySeriesIsTheWholeYear ==
    /\ Answered200(last) => TwelveMonths(cache, last.payload, last.body)
    /\ (Answered200(prev) /\ Answered200(last)) =>
           last.body.monthly = prev.body.monthly

C3_Witness ==
    /\ Answered200(prev) /\ Answered200(last)
    /\ prev.payload.month # last.payload.month
    /\ [prev.payload EXCEPT !.month = last.payload.month] = last.payload
    /\ last.body.monthly[7].lightning_count = 7
    /\ last.body.monthly[7].cloud_mean_pct # PyNone

\* days of a month of the Gregorian calendar
GregorianDays(year, month) ==
    IF month \in {4, 6, 9, 11} THEN 30
    ELSE IF month # 2 THEN 31
    ELSE IF (year % 4 = 0 /\ year % 100 # 0) \/ year % 400 = 0 THEN 29
    ELSE 28

\* `chars` is YYYY-MM-DD for the given day
IsIsoDate(chars, year, month, day) ==
    /\ Len(chars) = 10
    /\ chars[5] = "-" /\ chars[8] = "-"
    /\ \A i \in {1, 2, 3, 4, 6, 7, 9, 10} : IsDigit(chars[i])
    /\ DigitsVal(SubSeq(chars, 1, 4)) = year
    /\ DigitsVal(SubSeq(chars, 6, 7)) = month
    /\ DigitsVal(SubSeq(chars, 9, 10)) = day

\* C4: the daily series of every response has one entry per calendar day of
\* the requested month (Gregorian rules), the i-th entry dated YYYY-MM-DD
\* with day i, hence in ascending order.
C4_DailySeriesIsTheCalendarMonth ==
    Answered200(last) =>
        /\ Len(last.body.daily) = GregorianDays(last.payload.year, last.payload.month)
        /\ \A i \in DOMAIN last.body.daily :
               IsIsoDate(last.body.daily[i].date, last.payload.year,
                         last.payload.month, i)

C4_Witness ==
    /\ Answered200(last)
    /\ last.payload.year = 2024 /\ last.payload.month = 2
    /\ Len(last.body.daily) = 29
    /\ last.body.daily[29].lightning_count = 5

\* clamp(x, lo, hi)
Clamp(x, lo, hi) == IF x < lo THEN (IF lo > hi THEN hi ELSE lo) ELSE IF x > hi THEN hi ELSE x

YearlyLength(r) == Len(r.body.yearly)
ClampedLength(r) ==
    Clamp(r.payload.year, settings.weather_start_year, r.at)
        - settings.weather_start_year + 1

\* C5 as stated: the yearly series has length clamp(requestedYear,
\* startYear, currentYear) - startYear + 1, and never less than 1.
C5_AsStated ==
    Answered200(last) =>
        /\ YearlyLength(last) = ClampedLength(last)
        /\ YearlyLength(last) >= 1

\* C5: when startYear <= currentYear the yearly series has length
\* clamp(requestedYear, startYear, currentYear) - startYear + 1, which is at
\* least 1; when startYear > currentYear the yearly series is empty.
C5_YearlyLength ==
    Answered200(last) =>
        IF settings.weather_start_year <= last.at
        THEN YearlyLength(last) = ClampedLength(last) /\ YearlyLength(last) >= 1
        ELSE YearlyLength(last) = 0

C5_Witness ==
    /\ Answered200(last)
    /\ settings.weather_start_year > last.at
    /\ last.body.yearly = <<>>

\* the years of a yearly series
YearsOf(r) == [i \in DOMAIN r.body.yearly |-> r.body.yearly[i].year]
YearsFromTo(first, final) == [i \in 1..(final - first + 1) |-> first + i - 1]

\* C6 as stated: a request for a year below the start year is not rejected
\* and gets the years startYear..currentYear; a request for a year above the
\* current year gets a yearly series ending at currentYear.
C6_AsStated ==
    /\ (last # NoRequest /\ cache # NoStore /\ InRectangle(last.payload)
          /\ last.payload.year < settings.weather_start_year) => last.status # 400
    /\ (Answered200(last) /\ last.payload.year < settings.weather_start_year) =>
           YearsOf(last) = YearsFromTo(settings.weather_start_year, last.at)
    /\ (Answered200(last) /\ last.payload.year > last.at) =>
           /\ last.body.yearly # <<>>
           /\ last.body.yearly[Len(last.body.yearly)].year = last.at

\* C6: a request for a year below the start year is not rejected; its yearly
\* series is the single year startYear when startYear <= currentYear and
\* empty otherwise.  A request for a year above the current year gets the
\* years startYear..currentYear, ending at currentYear, when startYear <=
\* currentYear, and an empty series otherwise.
C6_YearClampedNotRejected ==
    /\ (last # NoRequest /\ cache # NoStore /\ InRectangle(last.payload)
          /\ last.payload.year < settings.weather_start_year) => last.status # 400
    /\ (Answered200(last) /\ last.payload.year < settings.weather_start_year) =>
           YearsOf(last) = IF settings.weather_start_year <= last.at
                           THEN <<settings.weather_start_year>> ELSE <<>>
    /\ (Answered200(last) /\ last.payload.year > last.at) =>
           YearsOf(last) = YearsFromTo(settings.weather_start_year, last.at)

C6_Witness ==
    /\ Answered200(last)
    /\ last.payload.year < settings.weather_start_year
    /\ settings.weather_start_year < last.at
    /\ YearsOf(last) = <<settings.weather_start_year>>

EmptyStore(store) ==
    /\ store.stations = <<>>
    /\ store.lightning_daily = EmptyDict /\ store.lightning_monthly = EmptyDict
    /\ store.lightning_yearly = EmptyDict
    /\ store.cloud_daily = EmptyDict /\ store.cloud_monthly = EmptyDict
    /\ store.cloud_yearly = EmptyDict

EmptyResponse(request, body) ==
    /\ body.point.lat = request.lat /\ body.point.lon = request.lon
    /\ body.cloud_interpolation = PyNone
    /\ Len(body.daily) = GregorianDays(request.year, request.month)
    /\ Len(body.monthly) = 12
    /\ \A i \in DOMAIN body.daily :
           body.daily[i].cloud_mean_pct = PyNone /\ body.daily[i].lightning_count = 0
    /\ \A i \in DOMAIN body.monthly :
           body.monthly[i].cloud_mean_pct = PyNone /\ ZeroFilled(body.monthly[i])
    /\ \A i \in DOMAIN body.yearly :
           body.yearly[i].cloud_mean_pct = PyNone /\ ZeroFilled(body.yearly[i])

\* C7: with every processed-data file absent the store is built with no
\* stations and empty indices, and every request for a point in the
\* rectangle is answered 200 with a full response: no station descriptor,
\* every cloud_mean_pct None, every lightning_count 0 and
\* lightning_probability 0.0.
C7_EmptyDirectoryServes ==
    (disk = EmptyDirectory /\ last # NoRequest) =>
        /\ built # NotBuilt /\ built.ok
        /\ cache # NoStore /\ EmptyStore(cache)
        /\ InRectangle(last.payload) =>
               last.status = 200 /\ EmptyResponse(last.payload, last.body)

C7_Witness ==
    /\ disk = EmptyDirectory
    /\ Answered200(last)
    /\ last.body.yearly # <<>>
    /\ last.body.cloud_interpolation = PyNone

\* C10 as stated: once the store is loaded, every request for a point in the
\* rectangle is answered 200 with a response body, whatever the lightning
\* records hold.
C10_AsStated ==
    (last # NoRequest /\ cache # NoStore /\ InRectangle(last.payload)) =>
        last.status = 200 /\ last.body # PyNone


\* the same request was made twice on the same store
AskedTwice == prev # NoRequest /\ prev.payload = last.payload

\* sequence a is an initial part of sequence b
IsPrefix(a, b) == Len(a) <= Len(b) /\ \A i \in DOMAIN a : a[i] = b[i]

\* what the responses of an earlier and a later call share whatever the
\* calendar years they were made in: a failure of the earlier call is a
\* failure of the later one, and two successes differ in the yearly series
\* at most
SameButYearly(a, b) ==
    /\ a.status = 500 => (b.status = 500 /\ b.error = a.error)
    /\ (a.status = 200 /\ b.status = 200) =>
        /\ a.body.point = b.body.point
        /\ a.body.cloud_interpolation = b.body.cloud_interpolation
        /\ a.body.daily = b.body.daily
        /\ a.body.monthly = b.body.monthly
        /\ IsPrefix(a.body.yearly, b.body.yearly)

\* C14 as stated: two calls with the same (lat, lon, year, month) on the
\* same store return identical responses whenever each call is made.
C14_AsStated ==
    AskedTwice => (prev.status = last.status /\ prev.body = last.body)

\* C14: two calls with the same (lat, lon, year, month) on the same store
\* return identical responses when both are made in the same calendar year.
\* Made in different years, two successful calls return the same point,
\* station descriptor, daily and monthly series, and the yearly series of
\* the earlier call is an initial part of that of the later call; a call
\* that fails fails again in every later year.
C14_SameResponseWithinAYear ==
    AskedTwice =>
        /\ SameButYearly(prev, last)
        /\ prev.at = last.at =>
               (prev.status = last.status /\ prev.body = last.body
                   /\ prev.error = last.error)

\* the same request answered in two calendar years, with two yearly series
C14_Witness ==
    /\ AskedTwice
    /\ Answered200(prev) /\ Answered200(last)
    /\ prev.at < last.at
    /\ prev.body.yearly # last.body.yearly
    /\ prev.body.yearly # <<>>


\* the station has a stored cloud value for a day, month or year of response r
SuppliesValue(store, station_id, r) ==
    \/ \E i \in DOMAIN r.body.daily :
           Lookup(store.cloud_daily, station_id, <<r.body.daily[i].date>>) # PyNone
    \/ \E i \in DOMAIN r.body.monthly :
           Lookup(store.cloud_monthly, station_id,
                  <<r.payload.year, r.body.monthly[i].month>>) # PyNone
    \/ \E i \in DOMAIN r.body.yearly :
           Lookup(store.cloud_yearly, station_id, <<r.body.yearly[i].year>>) # PyNone

\* station i of the store is the one the descriptor of response r names, at
\* the distance the descriptor reports
NamedBy(store, i, r) ==
    /\ store.stations[i].name = r.body.cloud_interpolation.nearest_station_name
    /\ Round2(haversine_km(r.payload.lat, r.payload.lon, store.stations[i].lat,
                           store.stations[i].lon), 1)
           = r.body.cloud_interpolation.nearest_station_distance_km

\* station i of the store is within the radius and supplies a value
FeedsResponse(store, i, r) ==
    /\ haversine_km(r.payload.lat, r.payload.lon, store.stations[i].lat,
                    store.stations[i].lon) <= store.idw_max_distance_km
    /\ SuppliesValue(store, store.stations[i].station_id, r)

\* C16 as stated: the descriptor of a response names a station within the
\* maximum radius that supplies a cloud value for at least one key of the
\* response, with its distance rounded to two decimals; the descriptor is
\* absent exactly when the store holds no station.
C16_AsStated ==
    Answered200(last) =>
        /\ (last.body.cloud_interpolation = PyNone) <=> (cache.stations = <<>>)
        /\ last.body.cloud_interpolation # PyNone =>
               \E i \in DOMAIN cache.stations :
                   NamedBy(cache, i, last) /\ FeedsResponse(cache, i, last)

\* the cloud values of response r, each with the index and key it was
\* looked up under
DailyEntry(r, i) ==
    [index |-> "cloud_daily", key |-> <<r.body.daily[i].date>>,
     value |-> r.body.daily[i].cloud_mean_pct]
MonthlyEntry(r, i) ==
    [index |-> "cloud_monthly", key |-> <<r.payload.year, r.body.monthly[i].month>>,
     value |-> r.body.monthly[i].cloud_mean_pct]
YearlyEntry(r, i) ==
    [index |-> "cloud_yearly", key |-> <<r.body.yearly[i].year>>,
     value |-> r.body.yearly[i].cloud_mean_pct]

\* P holds of every cloud value of response r, of some cloud value of r
EveryEntry(r, P(_)) ==
    /\ \A i \in DOMAIN r.body.daily : P(DailyEntry(r, i))
    /\ \A i \in DOMAIN r.body.monthly : P(MonthlyEntry(r, i))
    /\ \A i \in DOMAIN r.body.yearly : P(YearlyEntry(r, i))
SomeEntry(r, P(_)) ==
    \/ \E i \in DOMAIN r.body.daily : P(DailyEntry(r, i))
    \/ \E i \in DOMAIN r.body.monthly : P(MonthlyEntry(r, i))
    \/ \E i \in DOMAIN r.body.yearly : P(YearlyEntry(r, i))

\* the value station i of the store holds for entry e (None without one)
StoredValue(store, i, e) == Lookup(store[e.index], store.stations[i].station_id, e.key)

\* the distance of station i of the store from the point of response r
DistanceFrom(store, i, r) ==
    haversine_km(r.payload.lat, r.payload.lon, store.stations[i].lat,
                 store.stations[i].lon)

\* the stations at the point of response r (within 1e-9 km of it)
CoLocated(store, r) == {i \in DOMAIN store.stations : DistanceFrom(store, i, r) < 1}

\* entry e of the last response is the value station i holds for its key
IsValueOf(e, i) == e.value = StoredValue(cache, i, e)

IsValueOfCoLocated(e) == \A i \in CoLocated(cache, last) : IsValueOf(e, i)

IsValueOfCoLocatedHolder(e) ==
    \A i \in CoLocated(cache, last) :
        StoredValue(cache, i, e) # PyNone => IsValueOf(e, i)

OtherValueInReach(e) ==
    \E j \in DOMAIN cache.stations :
        /\ DistanceFrom(cache, j, last) >= 1
        /\ DistanceFrom(cache, j, last) <= cache.idw_max_distance_km
        /\ StoredValue(cache, j, e) \notin {PyNone, e.value}

ExactDespiteOther(e) ==
    /\ e.value # PyNone
    /\ \E i \in CoLocated(cache, last) : IsValueOf(e, i)
    /\ OtherValueInReach(e)

PassedOver(e) ==
    /\ e.value # PyNone
    /\ \E i \in CoLocated(cache, last) : StoredValue(cache, i, e) = PyNone

HoldersInReach(store, r, e) ==
    SelectSeq(sorted_station_distances(store, r.payload.lat, r.payload.lon),
              LAMBDA p : /\ p.distance <= store.idw_max_distance_km
                         /\ Lookup(store[e.index], p.station.station_id, e.key) # PyNone)

FirstOf(seq, n) == SubSeq(seq, 1, Min(Len(seq), n))

NeighboursOf(store, r, e) == FirstOf(HoldersInReach(store, r, e), store.idw_max_neighbors)

ValueAt(store, p, e) == Lookup(store[e.index], p.station.station_id, e.key).milli

\* x is num / den rounded to two decimals: a multiple of 0.01 not farther
\* than 0.005 from the quotient (x and num in thousandths)
IsRounded(x, num, den) ==
    /\ x % 10 = 0
    /\ Abs(x * den - num) <= 5 * den

\* x is (v1/d1^p + v2/d2^p) / (1/d1^p + 1/d2^p) rounded to two decimals, the
\* fraction extended by d1^p * d2^p
IsBlendOfTwo(x, v1, d1, v2, d2, p) ==
    IsRounded(x, v1 * Pow(d2, p) + v2 * Pow(d1, p), Pow(d1, p) + Pow(d2, p))

\* value is the weighted mean over the neighbours n (one or two of them),
\* their distances measured in unit
IsBlendOf(value, store, e, n, unit) ==
    /\ value # PyNone
    /\ Len(n) = 1 => IsRounded(value.milli, ValueAt(store, n[1], e), 1)
    /\ Len(n) = 2 =>
           IsBlendOfTwo(value.milli,
                        ValueAt(store, n[1], e), n[1].distance \div unit,
                        ValueAt(store, n[2], e), n[2].distance \div unit,
                        store.idw_power)

NoCoLocatedHolder(e) ==
    \A i \in CoLocated(cache, last) : StoredValue(cache, i, e) = PyNone

IsBlendOfNeighbours(e) ==
    (NoCoLocatedHolder(e) /\ NeighboursOf(cache, last, e) # <<>>) =>
        IsBlendOf(e.value, cache, e, NeighboursOf(cache, last, e),
                  Gcd(NeighboursOf(cache, last, e)[1].distance,
                      NeighboursOf(cache, last, e)[Len(NeighboursOf(cache, last, e))].distance))

\* C19: when no co-located station supplies the value, the cloud value for
\* a key is sum(value_i / distance_i^power) / sum(1 / distance_i^power) over
\* the collected neighbours (the nearest idw_max_neighbors stations within
\* the radius that hold a value for the key), rounded to two decimals.
C19_WeightedMeanOfNeighbours ==
    Answered200(last) => EveryEntry(last, IsBlendOfNeighbours)

\* two neighbours at different distances holding different values, a third
\* holder in reach left out by the neighbour cap
TwoOfThree(e) ==
    /\ NoCoLocatedHolder(e)
    /\ Len(HoldersInReach(cache, last, e)) = 3
    /\ Len(NeighboursOf(cache, last, e)) = 2
    /\ NeighboursOf(cache, last, e)[1].distance < NeighboursOf(cache, last, e)[2].distance
    /\ ValueAt(cache, NeighboursOf(cache, last, e)[1], e)
           # ValueAt(cache, NeighboursOf(cache, last, e)[2], e)
    /\ e.value # PyNone

\* a response with a value blended from two stations at distances d1 < d2
C19_Witness == Answered200(last) /\ SomeEntry(last, TwoOfThree)

\* the stations whose values make the value of entry e: the co-located
\* holder, or else the collected neighbours
Contributors(store, r, h) ==
    IF h # <<>> /\ h[1].distance < 1 THEN <<h[1]>>
    ELSE FirstOf(h, store.idw_max_neighbors)

ContributedValues(e) ==
    {ValueAt(cache, Contributors(cache, last, HoldersInReach(cache, last, e))[i], e) :
        i \in DOMAIN Contributors(cache, last, HoldersInReach(cache, last, e))}

\* x is at least the smallest and at most the largest of the values, up to
\* a tolerance
Within(x, values, tolerance) ==
    /\ \E v \in values : v - tolerance <= x
    /\ \E v \in values : x <= v + tolerance

StrictlyWithin(x, values) ==
    /\ \E v \in values : v < x
    /\ \E v \in values : x < v

InRangeOfContributors(e) ==
    e.value # PyNone =>
        /\ Within(e.value.milli, ContributedValues(e), 0)
        /\ Cardinality(ContributedValues(e)) >= 2 =>
               StrictlyWithin(e.value.milli, ContributedValues(e))

NearRangeOfContributors(e) ==
    e.value # PyNone =>
        /\ Within(e.value.milli, ContributedValues(e), 5)
        /\ (\A v \in ContributedValues(e) : v % 10 = 0) =>
               Within(e.value.milli, ContributedValues(e), 0)

\* C20 as stated: every non-null cloud value lies between the smallest and
\* the largest value of the contributing stations, strictly between them
\* when two contributing stations hold different values.
C20_AsStated ==
    Answered200(last) => EveryEntry(last, InRangeOfContributors)

\* C20: every non-null cloud value is no more than 0.005 below the smallest
\* and no more than 0.005 above the largest value of the contributing
\* stations; it is no smaller than the smallest and no larger than the
\* largest when these values have at most two decimals.
C20_WithinRoundedRange ==
    Answered200(last) => EveryEntry(last, NearRangeOfContributors)

RoundedOutOfRange(e) ==
    /\ e.value # PyNone
    /\ Cardinality(ContributedValues(e)) = 1
    /\ ~Within(e.value.milli, ContributedValues(e), 0)

BlendedInside(e) ==
    /\ e.value # PyNone
    /\ StrictlyWithin(e.value.milli, ContributedValues(e))

\* a response with a value blended strictly between two stations' values
\* and a value that rounding has put below the value both stations hold
C20_Witness ==
    /\ Answered200(last)
    /\ SomeEntry(last, BlendedInside)
    /\ SomeEntry(last, RoundedOutOfRange)

\* the sorted stations of the store without those beyond the maximum radius
StationsInReach(store, r) ==
    SelectSeq(sorted_station_distances(store, r.payload.lat, r.payload.lon),
              LAMBDA p : p.distance <= store.idw_max_distance_km)

\* a station beyond the maximum radius holds a value for entry e
HeldBeyondReach(store, r, e) ==
    \E i \in DOMAIN store.stations :
        /\ DistanceFrom(store, i, r) > store.idw_max_distance_km
        /\ StoredValue(store, i, e) # PyNone

\* entry e is what the stations within the radius alone give, and null
\* exactly when none of them holds a value for its key
DecidedWithinReach(e) ==
    /\ e.value = idw_cloud_value(cache, StationsInReach(cache, last), cache[e.index], e.key)
    /\ (e.value = PyNone) <=> (HoldersInReach(cache, last, e) = <<>>)

\* C21: no station beyond the maximum radius contributes to a cloud value
\* (each value is the one the stations within the radius alone give, a
\* station at exactly the radius included), and the value is null when no
\* station within the radius holds a value for the key, even when a station
\* beyond it does.
C21_NothingBeyondTheRadius ==
    Answered200(last) => EveryEntry(last, DecidedWithinReach)

NullDespiteHolderBeyond(e) ==
    e.value = PyNone /\ HeldBeyondReach(cache, last, e)

ValueDespiteHolderBeyond(e) ==
    e.value # PyNone /\ HeldBeyondReach(cache, last, e)

\* a response with a null value for a key that only a station beyond the
\* radius holds a value for, and with a value for a key that a station
\* beyond the radius holds a value for as well
C21_Witness ==
    /\ Answered200(last)
    /\ SomeEntry(last, NullDespiteHolderBeyond)
    /\ SomeEntry(last, ValueDespiteHolderBeyond)

\* the (distance, value) pairs of the neighbours n for entry e
PairsOf(store, e, n) ==
    [i \in DOMAIN n |-> [distance |-> n[i].distance, value |-> ValueAt(store, n[i], e)]]

\* the weighted mean of the neighbours n, null without neighbours
BlendOf(store, e, n) ==
    IF n = <<>> THEN PyNone ELSE idw_weighted(PairsOf(store, e, n), store.idw_power)

\* entry e is made of the nearest idw_max_neighbors holders of a value
MadeOfNearestHolders(e) ==
    NoCoLocatedHolder(e) =>
        e.value = BlendOf(cache, e, NeighboursOf(cache, last, e))

\* C22 as stated (specification SpecNeighbors): for any configured maximum
\* neighbour count N the stations contributing to a cloud value are the
\* nearest stations holding a value for the key, at most N of them.
C22_AsStated ==
    Answered200(last) => EveryEntry(last, MadeOfNearestHolders)

\* the same for a neighbour count of at least one
NearestHoldersFromOneUp ==
    (Answered200(last) /\ cache.idw_max_neighbors >= 1) =>
        EveryEntry(last, MadeOfNearestHolders)

\* the year the yearly series of response r ends at
EndYear(r) == Min(Max(r.payload.year, settings.weather_start_year), r.at)

\* each year of the series is the year before it plus one
Consecutive(years) == \A i \in 2..Len(years) : years[i] = years[i - 1] + 1

\* C23: the yearly series lists consecutive years in ascending order from
\* the start year to min(max(requestedYear, startYear), currentYear), every
\* year of that range once (no year when the range is empty); when
\* startYear <= requestedYear <= currentYear its last entry is the
\* requested year.
C23_YearlySeriesIsTheRange ==
    Answered200(last) =>
        /\ Consecutive(YearsOf(last))
        /\ Len(YearsOf(last)) = Max(0, EndYear(last) - settings.weather_start_year + 1)
        /\ YearsOf(last) # <<>> =>
               /\ YearsOf(last)[1] = settings.weather_start_year
               /\ YearsOf(last)[Len(YearsOf(last))] = EndYear(last)
        /\ (settings.weather_start_year <= last.payload.year /\ last.payload.year <= last.at) =>
               /\ YearsOf(last) # <<>>
               /\ YearsOf(last)[Len(YearsOf(last))] = last.payload.year

\* a yearly series of several years that ends at the requested year, made
\* after a series for the same request that ended at the year before
C23_Witness ==
    /\ Answered200(last) /\ Answered200(prev)
    /\ Len(YearsOf(last)) >= 3
    /\ YearsOf(last)[Len(YearsOf(last))] = last.payload.year
    /\ YearsOf(prev)[Len(YearsOf(prev))] = last.payload.year - 1

\* station i is considered before station j for the point of response r:
\* it is nearer, or as far and earlier in the station index
Precedes(store, r, i, j) ==
    \/ DistanceFrom(store, i, r) < DistanceFrom(store, j, r)
    \/ DistanceFrom(store, i, r) = DistanceFrom(store, j, r) /\ i < j

\* the stations in reach holding a value for entry e, as indices
HolderIndices(store, r, e) ==
    {i \in DOMAIN store.stations :
        /\ DistanceFrom(store, i, r) <= store.idw_max_distance_km
        /\ StoredValue(store, i, e) # PyNone}

\* the holders with fewer than idw_max_neighbors holders before them
KeptIndices(store, r, h) ==
    {i \in h : Cardinality({j \in h : Precedes(store, r, j, i)}) < store.idw_max_neighbors}

\* the kept holders as (station, distance) pairs, in the order of Precedes
KthOf(store, r, k, n) ==
    CHOOSE i \in k : Cardinality({j \in k : Precedes(store, r, j, i)}) = n - 1

KeptInOrder(store, r, k) ==
    [n \in 1..Cardinality(k) |->
        [station |-> store.stations[KthOf(store, r, k, n)],
         distance |-> DistanceFrom(store, KthOf(store, r, k, n), r)]]

MadeOfFirstSeen(e) ==
    NoCoLocatedHolder(e) =>
        e.value = BlendOf(cache, e,
                      KeptInOrder(cache, last,
                          KeptIndices(cache, last, HolderIndices(cache, last, e))))

\* the descriptor names the station considered before every other one
NamesFirstSeen(store, r) ==
    \E i \in DOMAIN store.stations :
        /\ \A j \in DOMAIN store.stations \ {i} : Precedes(store, r, i, j)
        /\ NamedBy(store, i, r)
        /\ \A j \in DOMAIN store.stations :
               Precedes(store, r, i, j) =>
                   store.stations[j].name # r.body.cloud_interpolation.nearest_station_name

\* C24: stations at exactly the same distance from the query point are
\* considered in the order of the station index: the descriptor names the
\* first of the nearest stations, and the neighbour cap keeps the
\* equidistant holders that come first in the index.
C24_TiesInIndexOrder ==
    Answered200(last) =>
        /\ last.body.cloud_interpolation # PyNone => NamesFirstSeen(cache, last)
        /\ EveryEntry(last, MadeOfFirstSeen)

\* three holders at the same distance, two of them kept
CutAmongEquals(e) ==
    /\ e.value # PyNone
    /\ Cardinality(HolderIndices(cache, last, e)) = 3
    /\ Cardinality(KeptIndices(cache, last, HolderIndices(cache, last, e))) = 2
    /\ \A i, j \in HolderIndices(cache, last, e) :
           DistanceFrom(cache, i, last) = DistanceFrom(cache, j, last)

\* a response for a point with three equidistant stations: the descriptor
\* names one of them and the cap cuts among them
C24_Witness ==
    /\ Answered200(last)
    /\ last.body.cloud_interpolation # PyNone
    /\ Cardinality({i \in DOMAIN cache.stations :
                       \A j \in DOMAIN cache.stations :
                           DistanceFrom(cache, i, last) <= DistanceFrom(cache, j, last)}) = 3
    /\ SomeEntry(last, CutAmongEquals)

\* C15 as stated (specification SpecH3): with an h3 package that has no
\* lat/lon-to-cell function, the store is never constructed and no request
\* is accepted and then failed by the missing function inside query.
C15_AsStated ==
    h3_api \notin {"latlng_to_cell", "geo_to_h3"} =>
        /\ built # NotBuilt => ~built.ok
        /\ ~(last # NoRequest /\ last.status = 500 /\ last.error = "RuntimeError"
               /\ last.ran = <<"is_point_in_bounds", "query">>)

-----------------------------------------------------------------------------
(* Properties of the loader (specification SpecLoader) *)

\* the well-formed content of each file
WellFormed(f) == SampleDirectory[f]

\* the directory with every missing file put in place
Restored(dir) == [f \in Files |-> IF dir[f] = Absent THEN WellFormed(f) ELSE dir[f]]

\* the index a store holds for a file
IndexOf(store, f) ==
    CASE f = StationIndexFile -> store.stations
      [] f = LightningDailyFile -> store.lightning_daily
      [] f = LightningMonthlyFile -> store.lightning_monthly
      [] f = LightningYearlyFile -> store.lightning_yearly
      [] f = CloudDailyFile -> store.cloud_daily
      [] f = CloudMonthlyFile -> store.cloud_monthly
      [] OTHER -> store.cloud_yearly

MissingFilesOnlyEmpty(dir, made, whole) ==
    whole.ok =>
        /\ made.ok
        /\ \A f \in Files :
               IndexOf(made.val, f) =
                   IF dir[f] = Absent THEN <<>> ELSE IndexOf(whole.val, f)

\* C8: whichever files are missing, if the directory loads with the missing
\* files in place then it loads without them, the index of every missing
\* file is empty and the index of every present file is the one built when
\* no file is missing.
C8_MissingFileIsEmptyIndex ==
    built # NotBuilt =>
        MissingFilesOnlyEmpty(disk, built, from_processed_dir(Restored(disk), settings))

C8_Witness ==
    /\ built # NotBuilt /\ built.ok
    /\ disk[StationIndexFile] # Absent /\ Len(built.val.stations) = 2
    /\ disk[LightningDailyFile] = Absent /\ disk[CloudYearlyFile] = Absent
    /\ disk[CloudDailyFile] # Absent /\ built.val.cloud_daily # EmptyDict
    /\ built.val.lightning_daily = EmptyDict

\* C9 as stated: from_processed_dir never fails on a malformed line, array
\* element or field; the record is skipped.
C9_AsStated == built # NotBuilt => built.ok


\* C17 as stated: a loaded station list holds no two stations with the same
\* station_id.
C17_AsStated ==
    (built # NotBuilt /\ built.ok) =>
        \A i, j \in DOMAIN built.val.stations :
            i # j => built.val.stations[i].station_id # built.val.stations[j].station_id

-----------------------------------------------------------------------------
(* Properties of the threadpool (specification SpecThreads) *)

LoadsMade == {i \in DOMAIN history : history[i].op = "load"}

\* C11 as stated: without a cache reset from_processed_dir runs at most once,
\* also when requests arrive before the first load has finished, and every
\* request is served by the same store instance.
C11_AsStated ==
    ClearsMade = 0 =>
        /\ Cardinality(LoadsMade) <= 1
        /\ \A t, u \in Threads :
               (workers[t].store # 0 /\ workers[u].store # 0) =>
                   workers[t].store = workers[u].store

\* thread t calls get_metrics_store() in this step
Entered(t) ==
    workers[t].pc \in {"idle", "done"} /\ workers'[t].pc \notin {"idle", "done"}

\* a call made while a store is cached gets that store, and nothing is loaded
ServedFromCache ==
    \A t \in Threads :
        (Entered(t) /\ cache_id # 0) =>
            /\ workers'[t].pc = "store"
            /\ workers'[t].store = cache_id
            /\ history' = history

\* the cached store is replaced by nothing but cache_clear()
KeptUntilCleared ==
    (cache_id # 0 /\ cache_id' # cache_id) =>
        cache_id' = 0 /\ history' = Append(history, [op |-> "cache_clear"])

\* a change of the files touches neither the cache nor a store nor a request
FilesNotWatched ==
    disk' # disk =>
        history' = history /\ cache_id' = cache_id /\ workers' = workers

\* a call made while the cache is empty loads the directory as it is when
\* the load runs, and the store it makes is cached for the later calls
LoadedFromCurrentFiles ==
    \A t \in Threads :
        (workers[t].pc = "miss" /\ workers'[t].pc # "miss") =>
            /\ history' = Append(history, [op |-> "load", dir |-> disk,
                                           out |-> from_processed_dir(disk, settings)])
            /\ workers'[t].store = Len(history')
            /\ cache_id = 0 => cache_id' = Len(history')

\* C12: once a store is cached, a change of the processed files (or of the
\* configured directory) changes neither the cached store nor any request
\* served from it; only cache_clear() empties the cache; the first call
\* after it loads the directory as currently configured and later calls are
\* served from that store.
C12_StaleUntilCacheClear ==
    [][ServedFromCache /\ KeptUntilCleared /\ FilesNotWatched /\ LoadedFromCurrentFiles]_vars

\* a request answered from the store of the first directory after the files
\* were replaced, and a request answered from the store loaded after
\* cache_clear()
C12_Witness ==
    /\ disk = RewrittenDirectory
    /\ ClearsMade = 1
    /\ workers[1].pc = "done" /\ workers[1].response.status = 200
    /\ workers[2].pc = "done" /\ workers[2].response.status = 200
    /\ workers[1].store = 1 /\ history[1].dir = StartDirectory
    /\ history[2].op = "cache_clear"
    /\ workers[2].store = 3 /\ history[3].dir = RewrittenDirectory
    /\ cache_id = 3
    /\ workers[1].payload = workers[2].payload
    /\ workers[1].response # workers[2].response

\* every store made so far is still what from_processed_dir made of the files
StoresUnchanged ==
    \A i \in LoadsMade :
        history[i].out = from_processed_dir(history[i].dir, settings)

\* every finished request has the response the handler gives when it runs
\* alone on the store the request was served from
AnsweredAsAlone ==
    \A t \in Threads :
        (workers[t].pc = "done" /\ workers[t].store # 0) =>
            workers[t].response =
                point_response(StoreOf(workers[t]), h3_api, workers[t].payload, today)

-----------------------------------------------------------------------------
(* The data scripts: build_lightning_aggregates *)

\* the server's variables, which no script touches
server == <<disk, settings, today, cache, built, last, prev, h3_api,
            workers, history, cache_id>>

\* no server process: the scripts run offline
NoServer ==
    /\ disk = EmptyDirectory
    /\ settings = SettingsWith(MinYear)
    /\ today = FirstToday
    /\ cache = NoStore
    /\ built = NotBuilt
    /\ last = NoRequest
    /\ prev = NoRequest
    /\ h3_api = "latlng_to_cell"
    /\ NoThreads

\* str.split(sep): the pieces between the separators
RECURSIVE SplitOn(_, _, _)
SplitOn(chars, sep, piece) ==
    IF chars = <<>> THEN <<piece>>
    ELSE IF Head(chars) = sep THEN <<piece>> \o SplitOn(Tail(chars), sep, <<>>)
    ELSE SplitOn(Tail(chars), sep, Append(piece, Head(chars)))

\* year, month, _day = map(int, date_str.split("-"))
unpacked_date(parts) ==
    IF Len(parts) # 3 THEN Raise("ValueError")
    ELSE IF \E i \in 1..3 : ~ParseInt(parts[i]).ok THEN Raise("ValueError")
    ELSE Ok([i \in 1..3 |-> ParseInt(parts[i]).val])

date_parts(date_str) == unpacked_date(SplitOn(date_str, "-", <<>>))

\* counts[key] += 1 on a defaultdict(int)
Inc(counts, key) == Put(counts, key, IF key \in DOMAIN counts THEN counts[key] + 1 ELSE 1)

\* rows of the raw lightning CSV files, as csv.DictReader yields them
MaxRows == 3
LightningStartYear == MinYear
RawStrike(year, month, day, lat) ==
    PyDict([year |-> PyStr(year), month |-> PyStr(month), day |-> PyStr(day),
            lat |-> PyStr(lat), lon |-> PyStr(<<"1">>)])
RawStrikes ==
    {RawStrike(y, m, d, lat) :
        y \in {<<"2", "0", "2", "2">>, <<"2", "0", "2", "3">>, <<"2", "0", "2", "4">>, <<"x">>},
        m \in {<<"2">>, <<"1", "2">>, <<"1", "3">>},
        d \in {<<"1">>, <<" ", "2", "9">>},
        lat \in {<<"2", ".", "0">>, <<"4">>}}

\* variant: the monthly and yearly counts count days, not strikes
strike_counted_by_day(counts, h3_cell, year, month, date_str) ==
    [daily |-> Inc(counts.daily, <<h3_cell, date_str>>),
     monthly |-> IF <<h3_cell, date_str>> \in DOMAIN counts.daily THEN counts.monthly
                 ELSE Inc(counts.monthly, <<h3_cell, year, month>>),
     yearly |-> IF <<h3_cell, date_str>> \in DOMAIN counts.daily THEN counts.yearly
                ELSE Inc(counts.yearly, <<h3_cell, year>>)]

\* the three counters after one strike
strike_counted(counts, h3_cell, year, month, date_str) ==
    [daily |-> Inc(counts.daily, <<h3_cell, date_str>>),
     monthly |-> Inc(counts.monthly, <<h3_cell, year, month>>),
     yearly |-> Inc(counts.yearly, <<h3_cell, year>>)]

\* the body of the row loop, the row's fields converted
strike_row(counts, year, month, day, lat, lon, start_year) ==
    IF year = PyNone \/ month = PyNone \/ day = PyNone \/ lat = PyNone \/ lon = PyNone
    THEN counts
    ELSE IF year.n < start_year THEN counts
    ELSE strike_counted(counts,
             latlng_to_h3_cell("latlng_to_cell", lat.milli, lon.milli, 7).val,
             year.n, month.n, format_date(year.n, month.n, day.n))

\* the days with a strike of a cell in a month, in a year (from the daily keys)
monthly_day_set(daily, h3_cell, year, month) ==
    {k[2] : k \in {x \in DOMAIN daily :
                      /\ x[1] = h3_cell
                      /\ date_parts(x[2]).val[1] = year
                      /\ date_parts(x[2]).val[2] = month}}
yearly_day_set(daily, h3_cell, year) ==
    {k[2] : k \in {x \in DOMAIN daily :
                      x[1] = h3_cell /\ date_parts(x[2]).val[1] = year}}

\* round(days_with_strike / days, 6), in millionths
Round6(days_with_strike, days) == (2 * 1000000 * days_with_strike + days) \div (2 * days)

daily_rows(counts) ==
    {[h3 |-> k[1], date |-> k[2], strike_count |-> counts.daily[k]] :
        k \in DOMAIN counts.daily}

monthly_row(counts, k, days_with_strike, days_in_month) ==
    [h3 |-> k[1], year |-> k[2], month |-> k[3], strike_count |-> counts.monthly[k],
     days_with_strike |-> days_with_strike, days_in_month |-> days_in_month,
     strike_probability |-> Round6(days_with_strike, days_in_month)]

monthly_rows(counts) ==
    {monthly_row(counts, k,
                 Cardinality(monthly_day_set(counts.daily, k[1], k[2], k[3])),
                 monthrange_days(k[2], k[3])) : k \in DOMAIN counts.monthly}

yearly_row(counts, k, days_with_strike, days_in_year) ==
    [h3 |-> k[1], year |-> k[2], strike_count |-> counts.yearly[k],
     days_with_strike |-> days_with_strike, days_in_year |-> days_in_year,
     strike_probability |-> Round6(days_with_strike, days_in_year)]

yearly_rows(counts) ==
    {yearly_row(counts, k, Cardinality(yearly_day_set(counts.daily, k[1], k[2])),
                IF isleap(k[2]) THEN 366 ELSE 365) : k \in DOMAIN counts.yearly}

\* what ends main() before anything is written: a date that does not unpack
\* into three numbers, calendar.monthrange of a month outside 1..12
lightning_error(counts) ==
    IF \E k \in DOMAIN counts.daily : ~date_parts(k[2]).ok THEN "ValueError"
    ELSE IF \E k \in DOMAIN counts.monthly : k[3] \notin 1..12 THEN "IllegalMonthError"
    ELSE ""

lightning_files(counts) ==
    [f \in {LightningDailyFile, LightningMonthlyFile, LightningYearlyFile} |->
        CASE f = LightningDailyFile -> daily_rows(counts)
          [] f = LightningMonthlyFile -> monthly_rows(counts)
          [] OTHER -> yearly_rows(counts)]

\* _validate_lightning: the counts summed from the daily file
RECURSIVE SumCounts(_)
SumWith(rows, r) == r.strike_count + SumCounts(rows \ {r})
SumCounts(rows) == IF rows = {} THEN 0 ELSE SumWith(rows, CHOOSE r \in rows : TRUE)

monthly_from_daily(daily, key) ==
    SumCounts({r \in daily : /\ r.h3 = key[1]
                             /\ date_parts(r.date).val[1] = key[2]
                             /\ date_parts(r.date).val[2] = key[3]})
yearly_from_daily(daily, key) ==
    SumCounts({r \in daily : r.h3 = key[1] /\ date_parts(r.date).val[1] = key[2]})

\* expected (None when the key has no daily row, which no count equals)
\* against the stored count
validate_lightning(daily, monthly, yearly) ==
    IF \E r \in monthly :
           monthly_from_daily(daily, <<r.h3, r.year, r.month>>) # r.strike_count
    THEN "ValueError"
    ELSE IF \E r \in yearly :
           yearly_from_daily(daily, <<r.h3, r.year>>) # r.strike_count
    THEN "ValueError"
    ELSE "ok"

InitLightning ==
    /\ NoServer
    /\ job = [pc |-> "rows", read |-> 0,
              counts |-> [daily |-> EmptyDict, monthly |-> EmptyDict, yearly |-> EmptyDict]]
    /\ files = <<>>

\* one row of a raw CSV file is read
ReadStrike ==
    /\ job.pc = "rows"
    /\ job.read < MaxRows
    /\ \E row \in RawStrikes :
           job' = [job EXCEPT !.read = @ + 1,
                              !.counts = strike_row(@, as_int(Get(row, "year")),
                                             as_int(Get(row, "month")),
                                             as_int(Get(row, "day")),
                                             as_float(Get(row, "lat")),
                                             as_float(Get(row, "lon")),
                                             LightningStartYear)]
    /\ UNCHANGED <<server, files>>

\* the rows are built and the three files written
WriteLightning ==
    /\ job.pc = "rows"
    /\ IF lightning_error(job.counts) # ""
       THEN job' = [pc |-> "failed", error |-> lightning_error(job.counts)]
            /\ files' = files
       ELSE job' = [pc |-> "written"] /\ files' = lightning_files(job.counts)
    /\ UNCHANGED server

\* validate_aggregates is run on the written files
ValidateLightning ==
    /\ job.pc = "written"
    /\ job' = [pc |-> "validated",
               verdict |-> validate_lightning(files[LightningDailyFile],
                                              files[LightningMonthlyFile],
                                              files[LightningYearlyFile])]
    /\ UNCHANGED <<server, files>>

NextLightning == ReadStrike \/ WriteLightning \/ ValidateLightning

SpecLightning == InitLightning /\ [][NextLightning]_vars

-----------------------------------------------------------------------------
(* Properties of build_lightning_aggregates (specification SpecLightning) *)

\* the daily rows of a cell in a month, in a year
DaysOfMonth(daily, r) ==
    {d \in daily : d.h3 = r.h3
                   /\ \E day \in 1..31 : d.date = format_date(r.year, r.month, day)}
DaysOfYear(daily, r) ==
    {d \in daily : d.h3 = r.h3
                   /\ \E month \in 1..12, day \in 1..31 :
                          d.date = format_date(r.year, month, day)}

RolledUp(r, days) ==
    /\ days # {}
    /\ r.strike_count = SumCounts(days)
    /\ r.strike_count >= 1
    /\ r.days_with_strike = Cardinality(days)
    /\ r.year >= LightningStartYear

\* C25: in the written lightning aggregates every monthly count is the sum
\* of the daily counts of the cell in that month and every yearly count the
\* sum of the daily counts of the cell in that year; every monthly and
\* yearly row has at least one daily row, every count is at least 1, no row
\* is of a year before the start year, and validate_aggregates accepts the
\* files.
C25_LightningCountsRollUp ==
    /\ job.pc \in {"written", "validated"} =>
        /\ \A r \in files[LightningMonthlyFile] :
               RolledUp(r, DaysOfMonth(files[LightningDailyFile], r))
        /\ \A r \in files[LightningYearlyFile] :
               RolledUp(r, DaysOfYear(files[LightningDailyFile], r))
        /\ \A d \in files[LightningDailyFile] :
               d.strike_count >= 1 /\ date_parts(d.date).val[1] >= LightningStartYear
    /\ job.pc = "validated" => job.verdict = "ok"

\* aggregates of two strikes on one day and one on another day of the same
\* month, validated
C25_Witness ==
    /\ job.pc = "validated"
    /\ \E r \in files[LightningMonthlyFile] :
           r.strike_count = 3 /\ r.days_with_strike = 2
    /\ \E d \in files[LightningDailyFile] : d.strike_count = 2

-----------------------------------------------------------------------------
(* The data scripts: build_cloud_aggregates *)

StartsWith(chars, prefix) ==
    Len(chars) >= Len(prefix) /\ SubSeq(chars, 1, Len(prefix)) = prefix

\* line.lstrip("﻿")
RECURSIVE lstrip_bom(_)
lstrip_bom(line) ==
    IF line # <<>> /\ Head(line) = "BOM" THEN lstrip_bom(Tail(line)) ELSE line

\* str.replace(",", ".")
Replaced(chars, old, new) ==
    [i \in 1..Len(chars) |-> IF chars[i] = old THEN new ELSE chars[i]]

\* str.upper(), over the letters of the quality column
UpperChar(c) ==
    CASE c = "g" -> "G" [] c = "y" -> "Y" [] c = "r" -> "R" [] OTHER -> c
Upper(chars) == [i \in 1..Len(chars) |-> UpperChar(chars[i])]

to_float_cleaned(cleaned) ==
    IF cleaned = <<>> THEN PyNone
    ELSE IF ParseFloat(cleaned).ok THEN PyFloat(ParseFloat(cleaned).val)
    ELSE PyNone

to_float(value) == to_float_cleaned(Replaced(Strip(value), ",", "."))

quality_rank(quality) ==
    IF quality = <<"G">> THEN 2 ELSE IF quality = <<"Y">> THEN 1 ELSE 0

\* date.fromisoformat of a YYYY-MM-DD string: <<year, month, day>>
iso_date(year, month, day) ==
    IF year < 1 \/ month \notin 1..12 THEN Raise("ValueError")
    ELSE IF day < 1 \/ day > monthrange_days(year, month) THEN Raise("ValueError")
    ELSE Ok(<<year, month, day>>)

fromisoformat(chars) ==
    IF Len(chars) # 10 \/ chars[5] # "-" \/ chars[8] # "-" THEN Raise("ValueError")
    ELSE IF ~AllDigits(SubSeq(chars, 1, 4) \o SubSeq(chars, 6, 7) \o SubSeq(chars, 9, 10))
    THEN Raise("ValueError")
    ELSE iso_date(DigitsVal(SubSeq(chars, 1, 4)), DigitsVal(SubSeq(chars, 6, 7)),
                  DigitsVal(SubSeq(chars, 9, 10)))

\* day_date < start_date
DateBefore(a, b) ==
    \/ a[1] < b[1]
    \/ a[1] = b[1] /\ a[2] < b[2]
    \/ a[1] = b[1] /\ a[2] = b[2] /\ a[3] < b[3]

CloudObservation(date_str, time_str, value, quality, source_priority) ==
    [date_str |-> date_str, time_str |-> time_str, value |-> value,
     quality |-> quality, source_priority |-> source_priority]

\* variant: the better quality wins whatever the source
should_replace_by_quality(current, candidate) ==
    quality_rank(candidate.quality) > quality_rank(current.quality)

\* a candidate replaces the current observation of its key
should_replace(current, candidate) ==
    \/ candidate.source_priority > current.source_priority
    \/ /\ candidate.source_priority = current.source_priority
       /\ quality_rank(candidate.quality) > quality_rank(current.quality)

observed(observations, key, candidate) ==
    IF key \notin DOMAIN observations THEN Put(observations, key, candidate)
    ELSE IF should_replace(observations[key], candidate)
    THEN Put(observations, key, candidate)
    ELSE observations

cloud_dated(observations, date_str, time_str, value, quality, day_date,
            start_date, source_priority) ==
    IF ~day_date.ok THEN observations
    ELSE IF DateBefore(day_date.val, start_date) THEN observations
    ELSE observed(observations, <<date_str, time_str>>,
                  CloudObservation(date_str, time_str, value, quality, source_priority))

cloud_valued(observations, date_str, time_str, value, quality, start_date,
             source_priority) ==
    IF value = PyNone THEN observations
    ELSE IF value.milli > 100000 THEN observations
    ELSE cloud_dated(observations, date_str, time_str, value.milli, quality,
                     fromisoformat(date_str), start_date, source_priority)

cloud_columns(observations, columns, start_date, source_priority) ==
    IF Len(columns) < 4 THEN observations
    ELSE IF Upper(Strip(columns[4])) \notin {<<"G">>, <<"Y">>} THEN observations
    ELSE cloud_valued(observations, Strip(columns[1]), Strip(columns[2]),
                      to_float(Strip(columns[3])), Upper(Strip(columns[4])),
                      start_date, source_priority)

\* the body of the loop over the lines after the header
cloud_line(observations, line, start_date, source_priority) ==
    IF Strip(line) = <<>> THEN observations
    ELSE cloud_columns(observations, SplitOn(line, ";", <<>>), start_date,
                       source_priority)

HeaderPrefix ==
    <<"D", "a", "t", "u", "m", ";", "T", "i", "d", " ", "(", "U", "T", "C", ")", ";">>

IsHeader(line) == StartsWith(lstrip_bom(line), HeaderPrefix)

\* the index of the first header line, 0 when there is none
header_index(lines) ==
    IF \E i \in 1..Len(lines) : IsHeader(lines[i])
    THEN CHOOSE i \in 1..Len(lines) :
             IsHeader(lines[i]) /\ \A j \in 1..(i - 1) : ~IsHeader(lines[j])
    ELSE 0

RECURSIVE cloud_lines(_, _, _, _, _)
cloud_lines(observations, lines, i, start_date, source_priority) ==
    IF i > Len(lines) THEN observations
    ELSE cloud_lines(cloud_line(observations, lines[i], start_date, source_priority),
                     lines, i + 1, start_date, source_priority)

parse_station_csv(lines, start_date, source_priority) ==
    IF header_index(lines) = 0 THEN EmptyDict
    ELSE cloud_lines(EmptyDict, lines, header_index(lines) + 1, start_date,
                     source_priority)

\* the observations of a file that may not exist
station_file(file, start_date, source_priority) ==
    IF ~file.exists THEN EmptyDict
    ELSE parse_station_csv(file.lines, start_date, source_priority)

\* the observations of `other` merged into `merged`
merge_into(merged, other) ==
    [key \in DOMAIN merged \cup DOMAIN other |->
        IF key \notin DOMAIN other THEN merged[key]
        ELSE IF key \notin DOMAIN merged THEN other[key]
        ELSE IF should_replace(merged[key], other[key]) THEN other[key]
        ELSE merged[key]]

\* merged_observations of a station: the corrected archive, then the latest months
merged_observations(corrected, latest, start_date) ==
    merge_into(merge_into(EmptyDict, station_file(corrected, start_date, 2)),
               station_file(latest, start_date, 1))

RECURSIVE SumValues(_, _)
SumValuesWith(merged, keys, key) == merged[key].value + SumValues(merged, keys \ {key})
SumValues(merged, keys) ==
    IF keys = {} THEN 0 ELSE SumValuesWith(merged, keys, CHOOSE key \in keys : TRUE)

\* round(value_sum / count, 3) in thousandths, halves to the even neighbour
Round3Of(quotient, rest, count) ==
    IF 2 * rest < count THEN quotient
    ELSE IF 2 * rest > count THEN quotient + 1
    ELSE IF quotient % 2 = 0 THEN quotient
    ELSE quotient + 1
Round3(value_sum, count) == Round3Of(value_sum \div count, value_sum % count, count)

DayOf(merged, key) == fromisoformat(merged[key].date_str).val
DayKeys(merged, day) == {key \in DOMAIN merged : DayOf(merged, key) = day}
MonthKeys(merged, year, month) ==
    {key \in DOMAIN merged :
        DayOf(merged, key)[1] = year /\ DayOf(merged, key)[2] = month}
YearKeys(merged, year) == {key \in DOMAIN merged : DayOf(merged, key)[1] = year}

cloud_daily_row(station_id, merged, day, keys) ==
    [station_id |-> station_id, date |-> format_date(day[1], day[2], day[3]),
     year |-> day[1], month |-> day[2], day |-> day[3],
     cloud_mean_pct |-> Round3(SumValues(merged, keys), Cardinality(keys)),
     n_samples |-> Cardinality(keys)]

cloud_monthly_row(station_id, merged, year, month, keys) ==
    [station_id |-> station_id, year |-> year, month |-> month,
     cloud_mean_pct |-> Round3(SumValues(merged, keys), Cardinality(keys)),
     n_samples |-> Cardinality(keys)]

cloud_yearly_row(station_id, merged, year, keys) ==
    [station_id |-> station_id, year |-> year,
     cloud_mean_pct |-> Round3(SumValues(merged, keys), Cardinality(keys)),
     n_samples |-> Cardinality(keys)]

cloud_files(station_id, merged) ==
    [f \in {CloudDailyFile, CloudMonthlyFile, CloudYearlyFile} |->
        CASE f = CloudDailyFile ->
                 {cloud_daily_row(station_id, merged, DayOf(merged, key),
                                  DayKeys(merged, DayOf(merged, key))) :
                      key \in DOMAIN merged}
          [] f = CloudMonthlyFile ->
                 {cloud_monthly_row(station_id, merged, DayOf(merged, key)[1],
                                    DayOf(merged, key)[2],
                                    MonthKeys(merged, DayOf(merged, key)[1],
                                              DayOf(merged, key)[2])) :
                      key \in DOMAIN merged}
          [] OTHER ->
                 {cloud_yearly_row(station_id, merged, DayOf(merged, key)[1],
                                   YearKeys(merged, DayOf(merged, key)[1])) :
                      key \in DOMAIN merged}]

\* the raw archive of one station
MaxLines == 3
CloudStation == <<"9", "7">>
CloudStartDate == <<MinYear, 1, 1>>
NewYearsDay == <<"2", "0", "2", "3", "-", "0", "1", "-", "0", "1">>
Candlemas == <<"2", "0", "2", "3", "-", "0", "2", "-", "0", "2">>
Noon == <<"1", "2", ":", "0", "0">>
Evening == <<"1", "8", ":", "0", "0">>
CloudLine(date_str, time_str, value_str, quality) ==
    date_str \o <<";">> \o time_str \o <<";">> \o value_str \o <<";">> \o quality
HeaderLine == HeaderPrefix \o <<"M", "o", "l", "n", ";", "K", "v", "a", "l">>
CloudLines ==
    {CloudLine(NewYearsDay, Noon, <<"5", "0">>, <<"G">>),
     CloudLine(NewYearsDay, Noon, <<"1", "0", "0">>, <<"Y">>),
     CloudLine(NewYearsDay, Noon, <<"-", "5">>, <<"G">>),
     CloudLine(NewYearsDay, Evening, <<" ", "1", "2", ",", "5">>, <<"y", " ">>),
     CloudLine(Candlemas, Noon, <<"0">>, <<"G">>),
     CloudLine(NewYearsDay, Noon, <<"1", "0", "1">>, <<"G">>),
     CloudLine(NewYearsDay, Noon, <<"5", "0">>, <<"R">>),
     CloudLine(NewYearsDay, Noon, <<"x">>, <<"G">>),
     CloudLine(<<"2", "0", "2", "2", "-", "1", "2", "-", "3", "1">>, Noon,
               <<"5", "0">>, <<"G">>),
     CloudLine(<<"2", "0", "2", "3", "-", "0", "2", "-", "3", "0">>, Noon,
               <<"5", "0">>, <<"G">>),
     NewYearsDay \o <<";">> \o Noon \o <<";", "5", "0">>,
     <<" ">>}
NoArchive == [exists |-> FALSE, lines |-> <<>>]
Archive(lines) == [exists |-> TRUE, lines |-> lines]
PreambleLine == CloudLine(Candlemas, Noon, <<"5", "0">>, <<"G">>)
CorrectedArchives ==
    {NoArchive, Archive(<<>>), Archive(<<PreambleLine, HeaderLine>>)}
LatestArchives == {NoArchive, Archive(<<HeaderLine>>)}

InitCloud ==
    /\ NoServer
    /\ \E corrected \in CorrectedArchives, latest \in LatestArchives :
           job = [pc |-> "corrected", corrected |-> corrected, latest |-> latest,
                  lines |-> 0]
    /\ files = <<>>

\* the corrected archive of the station holds one more line
CorrectedLine ==
    /\ job.pc = "corrected"
    /\ job.corrected.exists
    /\ job.lines < MaxLines
    /\ \E line \in CloudLines :
           job' = [job EXCEPT !.corrected.lines = Append(@, line), !.lines = @ + 1]
    /\ UNCHANGED <<server, files>>

\* the latest-months archive of the station holds one more line
LatestLine ==
    /\ job.pc \in {"corrected", "latest"}
    /\ job.latest.exists
    /\ job.lines < MaxLines
    /\ \E line \in CloudLines :
           job' = [job EXCEPT !.pc = "latest", !.latest.lines = Append(@, line),
                              !.lines = @ + 1]
    /\ UNCHANGED <<server, files>>

\* build_cloud_aggregates runs: a station is one with a file in either directory
BuildCloud ==
    /\ job.pc \in {"corrected", "latest"}
    /\ job' = [job EXCEPT !.pc = "written"]
    /\ files' = IF ~job.corrected.exists /\ ~job.latest.exists
                THEN cloud_files(CloudStation, EmptyDict)
                ELSE cloud_files(CloudStation,
                         merged_observations(job.corrected, job.latest, CloudStartDate))
    /\ UNCHANGED server

NextCloud == CorrectedLine \/ LatestLine \/ BuildCloud

SpecCloud == InitCloud /\ [][NextCloud]_vars

-----------------------------------------------------------------------------
(* Properties of build_cloud_aggregates (specification SpecCloud) *)

CloudRows ==
    files[CloudDailyFile] \cup files[CloudMonthlyFile] \cup files[CloudYearlyFile]

\* C26 as stated: every cloud_mean_pct written lies in 0..100
C26_AsStated ==
    job.pc = "written" =>
        \A r \in CloudRows : r.cloud_mean_pct >= 0 /\ r.cloud_mean_pct <= 100000

\* the lines of an archive after its header
DataLines(file) ==
    IF ~file.exists \/ header_index(file.lines) = 0 THEN <<>>
    ELSE SubSeq(file.lines, header_index(file.lines) + 1, Len(file.lines))

\* the observation a line stands for, when it stands for one
OnlyValue(d) == d[CHOOSE key \in DOMAIN d : TRUE]
AloneInAFile ==
    [line \in CloudLines \cup {HeaderLine, PreambleLine} |->
        cloud_line(EmptyDict, line, CloudStartDate, 0)]
Countable(line) == DOMAIN AloneInAFile[line] # {}
ObservationOf(line) == OnlyValue(AloneInAFile[line])
KeyOf(line) == <<ObservationOf(line).date_str, ObservationOf(line).time_str>>

LinesOfKey(lines, key) ==
    {i \in 1..Len(lines) : Countable(lines[i]) /\ KeyOf(lines[i]) = key}
GoodLinesOfKey(lines, key) ==
    {i \in LinesOfKey(lines, key) : ObservationOf(lines[i]).quality = <<"G">>}
FirstIn(indices) == CHOOSE i \in indices : \A j \in indices : i <= j

\* the first G-quality line of the key, else its first line
PickedLine(lines, key) ==
    IF GoodLinesOfKey(lines, key) # {} THEN lines[FirstIn(GoodLinesOfKey(lines, key))]
    ELSE lines[FirstIn(LinesOfKey(lines, key))]

KeysOf(lines) == {KeyOf(lines[i]) : i \in {j \in 1..Len(lines) : Countable(lines[j])}}
ArchiveKeys == KeysOf(DataLines(job.corrected)) \cup KeysOf(DataLines(job.latest))

\* the corrected archive's pick where it has one, else the latest-months pick
PickOfKey(key) ==
    IF LinesOfKey(DataLines(job.corrected), key) # {}
    THEN [ObservationOf(PickedLine(DataLines(job.corrected), key))
              EXCEPT !.source_priority = 2]
    ELSE [ObservationOf(PickedLine(DataLines(job.latest), key))
              EXCEPT !.source_priority = 1]

PickedObservations == [key \in ArchiveKeys |-> PickOfKey(key)]

\* the latest months first, the corrected archive merged into them
MergedTheOtherWay ==
    merge_into(merge_into(EmptyDict, station_file(job.latest, CloudStartDate, 1)),
               station_file(job.corrected, CloudStartDate, 2))

OneSamplePerKey ==
    \A r \in files[CloudDailyFile] :
        r.n_samples = Cardinality({key \in ArchiveKeys : key[1] = r.date})

\* C27: the written cloud aggregates count exactly one observation per
\* (date, time) of the station: the corrected archive's observation where it
\* has one, whatever the qualities, else the latest-months one; within a
\* file the first G-quality observation of the key, else the first one; and
\* merging the two files in the other order gives the same observations.
C27_OneObservationPerDateAndTime ==
    job.pc = "written" =>
        /\ files = cloud_files(CloudStation, PickedObservations)
        /\ OneSamplePerKey
        /\ MergedTheOtherWay = PickedObservations

\* the corrected archive holds a Y then a G observation of one (date, time)
\* and the latest months a G observation of another value; the G observation
\* of the corrected archive alone is counted
C27_Witness ==
    /\ job.pc = "written"
    /\ Cardinality(LinesOfKey(DataLines(job.corrected), <<NewYearsDay, Noon>>)) = 2
    /\ GoodLinesOfKey(DataLines(job.corrected), <<NewYearsDay, Noon>>) = {2}
    /\ GoodLinesOfKey(DataLines(job.latest), <<NewYearsDay, Noon>>) = {1}
    /\ \E r \in files[CloudDailyFile] :
           r.date = NewYearsDay /\ r.n_samples = 1 /\ r.cloud_mean_pct = 50000

-----------------------------------------------------------------------------
(* The data scripts: run_pipeline *)

FetchLightning == "fetch_lightning_raw.py"
FetchCloud == "fetch_cloud_raw.py"
BuildStationIndex == "build_station_index.py"
BuildLightning == "build_lightning_aggregates.py"
BuildCloudAggregates == "build_cloud_aggregates.py"

\* a command line: the script and its arguments
Command(script, args) == [script |-> script, args |-> args]

\* an optional flag with its value, absent when the value is None
Flag(name, value) == IF value = PyNone THEN <<>> ELSE <<name, IntChars(value.n)>>

fetch_commands(args) ==
    <<Command(FetchLightning,
              <<"--start-year", IntChars(args.start_year),
                "--end-year", IntChars(args.end_year)>>
              \o Flag("--max-days", args.max_lightning_days)),
      Command(FetchCloud, Flag("--max-stations", args.max_cloud_stations))>>

build_commands(args) ==
    <<Command(BuildStationIndex, <<>>),
      Command(BuildLightning, <<"--start-year", IntChars(args.start_year)>>),
      Command(BuildCloudAggregates,
              <<"--start-date",
                IntChars(args.start_year) \o <<"-", "0", "1", "-", "0", "1">>>>)>>

\* the _run calls of main, in program order
pipeline_commands(args) ==
    IF args.skip_fetch THEN build_commands(args)
    ELSE fetch_commands(args) \o build_commands(args)

\* variant: subprocess.run without check=True
never_raises(returncode) == FALSE

\* subprocess.run(command, check=True) raises CalledProcessError
called_process_error(returncode) == returncode # 0

ReturnCodes == {0, 1, -9}
PipelineArgs ==
    [start_year : {MinYear, MinYear + 1}, end_year : {MinYear + 3},
     skip_fetch : BOOLEAN, max_lightning_days : {PyNone, PyInt(2)},
     max_cloud_stations : {PyNone, PyInt(1)}]

InitPipeline ==
    /\ NoServer
    /\ \E args \in PipelineArgs :
           job = [pc |-> "main", args |-> args, done |-> 0, log |-> <<>>]
    /\ files = <<>>

\* _run: the command is printed and the child process started
RunScript ==
    /\ job.pc = "main"
    /\ job.done < Len(pipeline_commands(job.args))
    /\ job' = [job EXCEPT !.pc = "child",
                          !.log = Append(@, [ev |-> "run",
                                             command |-> pipeline_commands(job.args)[job.done + 1]])]
    /\ UNCHANGED <<server, files>>

\* the child process exits and subprocess.run returns or raises
ScriptExits ==
    /\ job.pc = "child"
    /\ \E returncode \in ReturnCodes :
           job' = [job EXCEPT !.pc = IF called_process_error(returncode)
                                     THEN "raised" ELSE "main",
                              !.done = IF called_process_error(returncode)
                                       THEN @ ELSE @ + 1,
                              !.log = Append(@, [ev |-> "exit", returncode |-> returncode])]
    /\ UNCHANGED <<server, files>>

\* print("Pipeline finished successfully.")
PipelineFinished ==
    /\ job.pc = "main"
    /\ job.done = Len(pipeline_commands(job.args))
    /\ job' = [job EXCEPT !.pc = "finished", !.log = Append(@, [ev |-> "success"])]
    /\ UNCHANGED <<server, files>>

NextPipeline == RunScript \/ ScriptExits \/ PipelineFinished

SpecPipeline == InitPipeline /\ [][NextPipeline]_vars

-----------------------------------------------------------------------------
(* Properties of run_pipeline (specification SpecPipeline) *)

PipelineOrder ==
    <<FetchLightning, FetchCloud, BuildStationIndex, BuildLightning, BuildCloudAggregates>>
OrderToRun ==
    IF job.args.skip_fetch THEN SubSeq(PipelineOrder, 3, 5) ELSE PipelineOrder

RunsLogged == SelectSeq(job.log, LAMBDA e : e.ev = "run")
ScriptsRun == [i \in 1..Len(RunsLogged) |-> RunsLogged[i].command.script]

\* the log alternates run and exit, and a run follows only an exit with 0
EachAfterSuccess ==
    \A i \in 1..Len(job.log) :
        job.log[i].ev = "run" =>
            \/ i = 1
            \/ job.log[i - 1].ev = "exit" /\ job.log[i - 1].returncode = 0

\* nothing follows a failed step
FailureStops ==
    \A i \in 1..Len(job.log) :
        (job.log[i].ev = "exit" /\ job.log[i].returncode # 0) => i = Len(job.log)

\* the success message follows the successful exit of the last step only
SuccessLast ==
    \A i \in 1..Len(job.log) :
        job.log[i].ev = "success" =>
            /\ i = Len(job.log)
            /\ ScriptsRun = OrderToRun
            /\ \A j \in 1..(i - 1) :
                   job.log[j].ev = "exit" => job.log[j].returncode = 0

\* C28: the scripts run are a prefix of fetch lightning, fetch cloud, build
\* station index, build lightning aggregates, build cloud aggregates (without
\* the two fetches under --skip-fetch); each is started only after the one
\* before exited with 0; nothing is run and no success message is printed
\* after a step failed.
C28_StepsInOrder ==
    /\ Len(ScriptsRun) <= Len(OrderToRun)
    /\ ScriptsRun = SubSeq(OrderToRun, 1, Len(ScriptsRun))
    /\ EachAfterSuccess
    /\ FailureStops
    /\ SuccessLast
    /\ job.args.skip_fetch =>
           \A i \in 1..Len(ScriptsRun) : ScriptsRun[i] \notin {FetchLightning, FetchCloud}

\* a full pipeline whose third step, the station index, failed after both
\* fetches succeeded
C28_Witness ==
    /\ job.pc = "raised"
    /\ ~job.args.skip_fetch
    /\ ScriptsRun = SubSeq(PipelineOrder, 1, 3)
    /\ job.log[Len(job.log)].returncode = 1

-----------------------------------------------------------------------------
(* The data scripts: request_json and download_text of common.py *)

MaxRetries == 3
RetryValues == -1..MaxRetries

\* what one HTTP attempt can come to: the connection fails, the status is
\* an error, the body is not JSON, the JSON is not an object, or it is fine
Responses == {"ConnectionError", "HTTPError", "JSONDecodeError", "array", "object"}

\* the body of the try block: the value returned or the exception raised
request_json_try(response) ==
    CASE response = "object" -> Ok("payload")
      [] response = "array" -> Raise("ValueError")
      [] OTHER -> Raise(response)

\* download_text never parses the body
download_text_try(response) ==
    IF response \in {"ConnectionError", "HTTPError"} THEN Raise(response)
    ELSE Ok("text")

attempt_try(function, response) ==
    IF function = "request_json" THEN request_json_try(response)
    ELSE download_text_try(response)

\* the except block: the log after a failed attempt
slept(log, attempt, retries) ==
    IF attempt < retries THEN Append(log, [ev |-> "sleep", seconds |-> attempt]) ELSE log

InitRetry ==
    /\ NoServer
    /\ \E function \in {"request_json", "download_text"}, retries \in RetryValues :
           job = [pc |-> "loop", function |-> function, retries |-> retries,
                  attempt |-> 1, error |-> "None", log |-> <<>>]
    /\ files = <<>>

\* one pass of the for loop
Attempt ==
    /\ job.pc = "loop"
    /\ job.attempt <= job.retries
    /\ \E response \in Responses :
           IF attempt_try(job.function, response).ok
           THEN job' = [job EXCEPT !.pc = "returned",
                                   !.log = Append(@, [ev |-> "get", response |-> response])]
           ELSE job' = [job EXCEPT
                           !.error = attempt_try(job.function, response).err,
                           !.attempt = @ + 1,
                           !.log = slept(Append(@, [ev |-> "get", response |-> response]),
                                         job.attempt, job.retries)]
    /\ UNCHANGED <<server, files>>

\* after the loop: assert error is not None; raise error.  With assertions
\* compiled out, raise None is a TypeError.
Exhausted ==
    /\ job.pc = "loop"
    /\ job.attempt > job.retries
    /\ \E raised \in IF job.error = "None" THEN {"AssertionError", "TypeError"}
                     ELSE {job.error} :
           job' = [job EXCEPT !.pc = "raised", !.error = raised]
    /\ UNCHANGED <<server, files>>

NextRetry == Attempt \/ Exhausted

SpecRetry == InitRetry /\ [][NextRetry]_vars

-----------------------------------------------------------------------------
(* Properties of request_json and download_text (specification SpecRetry) *)

Gets == SelectSeq(job.log, LAMBDA e : e.ev = "get")
Failed(e) ==
    \/ e.response \in {"ConnectionError", "HTTPError"}
    \/ job.function = "request_json" /\ e.response \in {"JSONDecodeError", "array"}

ErrorOf(e) == IF e.response = "array" THEN "ValueError" ELSE e.response

\* every failed attempt but the last possible one is followed by a wait of
\* as many seconds as the attempt's number, and nothing else is
WaitsBetween ==
    \A i \in 1..Len(job.log) :
        /\ job.log[i].ev = "sleep" =>
               /\ i > 1 /\ job.log[i - 1].ev = "get" /\ Failed(job.log[i - 1])
               /\ job.log[i].seconds = Len(SelectSeq(SubSeq(job.log, 1, i),
                                                     LAMBDA e : e.ev = "get"))
        /\ (job.log[i].ev = "get" /\ Failed(job.log[i]) /\ i < Len(job.log)) =>
               job.log[i + 1].ev = "sleep"

ReturnsFirstSuccess ==
    job.pc = "returned" =>
        /\ ~Failed(Gets[Len(Gets)])
        /\ \A i \in 1..(Len(Gets) - 1) : Failed(Gets[i])

RaisesLastError ==
    job.pc = "raised" =>
        /\ Len(Gets) = job.retries
        /\ Len(Gets) >= 1
        /\ \A i \in 1..Len(Gets) : Failed(Gets[i])
        /\ job.error = ErrorOf(Gets[Len(Gets)])
        /\ job.log[Len(job.log)].ev = "get"

\* C29 as stated: for every retries value at most `retries` attempts are
\* made, the first success is returned, the waits are `attempt` seconds
\* after each failed attempt but the last, and after `retries` failures the
\* error of the last attempt is raised
C29_AsStated ==
    /\ Len(Gets) <= job.retries
    /\ ReturnsFirstSuccess
    /\ WaitsBetween
    /\ RaisesLastError

-----------------------------------------------------------------------------
(* The data scripts: fetch_lightning_raw and fetch_cloud_raw *)

MaxDayCap == 2
FetchYear == MinYear

\* the month and day listings the service answers with, in listing order
MonthListing == <<[key |-> 6, days |-> <<1, 2>>], [key |-> 7, days |-> <<1, 2>>]>>
\* the stations of the parameter metadata: id and whether `to` is recent
StationListing == <<[id |-> <<"9", "7">>, recent |-> TRUE],
                    [id |-> <<"9", "8">>, recent |-> FALSE],
                    [id |-> <<"9", "9">>, recent |-> TRUE]>>

CsvSuffix == <<".", "c", "s", "v">>
\* output_dir / f"{year}" / f"{month:02d}" / f"{day:02d}.csv"
day_path(year, month, day) ==
    NatChars(year) \o <<"/">> \o PadInt(month, 2) \o <<"/">> \o PadInt(day, 2)
        \o CsvSuffix
corrected_path(station_id) ==
    <<"s", "t", "a", "t", "i", "o", "n", "/">> \o station_id \o CsvSuffix
latest_path(station_id) ==
    <<"l", "a", "t", "e", "s", "t", "/">> \o station_id \o CsvSuffix

DayPaths ==
    {day_path(FetchYear, MonthListing[m].key, MonthListing[m].days[d]) :
        m \in 1..Len(MonthListing), d \in 1..2}
StationPaths ==
    {corrected_path(StationListing[i].id) : i \in 1..Len(StationListing)}
        \cup {latest_path(StationListing[i].id) : i \in 1..Len(StationListing)}

Exists(path) == path \in DOMAIN files

\* variant: the cap is tested after it was passed
max_exceeded(cap, count) == cap # PyNone /\ count > cap.n

\* args.max_days is not None and downloaded >= args.max_days
max_reached(cap, count) == cap # PyNone /\ count >= cap.n

\* what the try block of one download can come to
DayOutcomes == {"ok", "payload error", "no-csv", "download error", "write error"}
FileOutcomes == {"ok", "download error", "write error"}

\* the counters and the failed list after the try block of one target
fetched(counters, target, outcome) ==
    IF outcome = "ok" THEN [counters EXCEPT !.downloaded = @ + 1]
    ELSE [counters EXCEPT !.failed = Append(@, [target |-> target, reason |-> outcome])]

\* the files after the try block: write_text is reached on success only
written(target, outcome) == IF outcome = "ok" THEN Put(files, target, "new") ELSE files

\* the requests made by the try block
requested(requests, target) == Append(requests, target)

NoCounters == [downloaded |-> 0, skipped |-> 0, failed |-> <<>>]

InitFetch ==
    /\ NoServer
    /\ \/ \E existing \in SUBSET DayPaths, cap \in {PyNone} \cup {PyInt(n) : n \in 0..MaxDayCap} :
              /\ files = [path \in existing |-> "old"]
              /\ job = [pc |-> "month", script |-> FetchLightning, cap |-> cap,
                        month |-> 1, day |-> 1, days |-> NoCounters,
                        existing |-> existing, visited |-> {}, requests |-> <<>>]
       \/ \E existing \in SUBSET StationPaths, cap \in {PyNone, PyInt(1)} :
              /\ files = [path \in existing |-> "old"]
              /\ job = [pc |-> "station", script |-> FetchCloud, cap |-> cap,
                        station |-> 1, corrected |-> NoCounters, latest |-> NoCounters,
                        not_recent |-> 0,
                        existing |-> existing, visited |-> {}, requests |-> <<>>]

\* fetch_lightning_raw: the head of the month loop and the month listing
MonthStep ==
    /\ job.pc = "month"
    /\ IF job.month > Len(MonthListing) \/ max_reached(job.cap, job.days.downloaded)
       THEN job' = [job EXCEPT !.pc = "done"]
       ELSE \E listed \in BOOLEAN :
                job' = IF listed THEN [job EXCEPT !.pc = "day", !.day = 1]
                       ELSE [job EXCEPT !.pc = "raised"]
    /\ UNCHANGED <<server, files>>

\* the target of the day the day loop is at
DayTarget ==
    day_path(FetchYear, MonthListing[job.month].key,
             MonthListing[job.month].days[job.day])

\* fetch_lightning_raw: one pass of the day loop
DayStep ==
    /\ job.pc = "day"
    /\ IF job.day > Len(MonthListing[job.month].days)
          \/ max_reached(job.cap, job.days.downloaded)
       THEN job' = [job EXCEPT !.pc = "month", !.month = @ + 1] /\ files' = files
       ELSE IF Exists(DayTarget)
       THEN /\ job' = [job EXCEPT !.days.skipped = @ + 1, !.day = @ + 1,
                                  !.visited = @ \cup {DayTarget}]
            /\ files' = files
       ELSE \E outcome \in DayOutcomes :
                /\ job' = [job EXCEPT !.days = fetched(@, DayTarget, outcome),
                                      !.day = @ + 1,
                                      !.visited = @ \cup {DayTarget},
                                      !.requests = requested(@, DayTarget)]
                /\ files' = written(DayTarget, outcome)
    /\ UNCHANGED server

\* fetch_cloud_raw: the latest-months half of one station
latest_fetched(state, station, outcome) ==
    IF latest_path(station.id) \in DOMAIN files
    THEN [state EXCEPT !.latest.skipped = @ + 1]
    ELSE IF ~station.recent THEN [state EXCEPT !.not_recent = @ + 1]
    ELSE [state EXCEPT !.latest = fetched(@, latest_path(station.id), outcome),
                       !.requests = requested(@, latest_path(station.id))]

latest_written(station, outcome) ==
    IF latest_path(station.id) \in DOMAIN files \/ ~station.recent THEN files
    ELSE written(latest_path(station.id), outcome)

\* fetch_cloud_raw: the corrected-archive half of one station
corrected_fetched(state, station, outcome) ==
    IF corrected_path(station.id) \in DOMAIN files
    THEN [state EXCEPT !.corrected.skipped = @ + 1]
    ELSE [state EXCEPT !.corrected = fetched(@, corrected_path(station.id), outcome),
                       !.requests = requested(@, corrected_path(station.id))]

corrected_written(station, outcome) ==
    IF corrected_path(station.id) \in DOMAIN files THEN files
    ELSE written(corrected_path(station.id), outcome)

\* fetch_cloud_raw: one pass of the station loop
StationStep ==
    /\ job.pc = "station"
    /\ IF job.station > Len(StationListing)
          \/ max_reached(job.cap, job.corrected.downloaded + job.corrected.skipped)
       THEN job' = [job EXCEPT !.pc = "done"] /\ files' = files
       ELSE \E first \in FileOutcomes, second \in FileOutcomes :
                /\ job' = [latest_fetched(
                               corrected_fetched(job, StationListing[job.station], first),
                               StationListing[job.station], second)
                             EXCEPT !.station = @ + 1,
                                    !.visited = @ \cup {StationListing[job.station].id}]
                /\ files' = corrected_written(StationListing[job.station], first)
                              @@ latest_written(StationListing[job.station], second)
    /\ UNCHANGED server

NextFetch == MonthStep \/ DayStep \/ StationStep

SpecFetch == InitFetch /\ [][NextFetch]_vars

-----------------------------------------------------------------------------
(* Properties of the fetch scripts (specification SpecFetch) *)

Requested == {job.requests[i] : i \in 1..Len(job.requests)}
FailedOf(counters) == {counters.failed[i].target : i \in 1..Len(counters.failed)}
FreshFiles == {path \in DOMAIN files : files[path] = "new"}

\* a file that was there at the start is as it was, and was not requested
ExistingUntouched ==
    \A path \in job.existing : Exists(path) /\ files[path] = "old" /\ path \notin Requested

\* every target requested was written or is in the failed list, once
Accounted(counters, requests) ==
    /\ counters.downloaded = Cardinality(requests \cap FreshFiles)
    /\ Len(counters.failed) = Cardinality(FailedOf(counters))
    /\ FailedOf(counters) = requests \ FreshFiles

LightningResumable ==
    job.script = FetchLightning =>
        /\ job.days.skipped = Cardinality(job.visited \cap job.existing)
        /\ Requested = job.visited \ job.existing
        /\ Accounted(job.days, Requested)
        /\ job.pc = "done" =>
               job.visited = DayPaths \/ max_reached(job.cap, job.days.downloaded)
        /\ job.cap # PyNone =>
               job.days.downloaded <= job.cap.n /\ Cardinality(FreshFiles) <= job.cap.n

StationsVisited == {i \in 1..Len(StationListing) : StationListing[i].id \in job.visited}

CloudResumable ==
    job.script = FetchCloud =>
        /\ job.corrected.skipped =
               Cardinality({i \in StationsVisited :
                               corrected_path(StationListing[i].id) \in job.existing})
        /\ job.latest.skipped =
               Cardinality({i \in StationsVisited :
                               latest_path(StationListing[i].id) \in job.existing})
        /\ Accounted(job.corrected,
                     {path \in Requested : \E i \in StationsVisited :
                                               path = corrected_path(StationListing[i].id)})
        /\ Accounted(job.latest,
                     {path \in Requested : \E i \in StationsVisited :
                                               path = latest_path(StationListing[i].id)})
        /\ \A i \in StationsVisited :
               corrected_path(StationListing[i].id) \in job.existing \cup Requested
        /\ job.pc = "done" =>
               \/ StationsVisited = 1..Len(StationListing)
               \/ max_reached(job.cap, job.corrected.downloaded + job.corrected.skipped)

\* C30: a raw file that exists when a fetch script starts is never
\* requested or overwritten, and every one the script comes to is counted as
\* skipped; every target that is requested is either written or recorded in
\* the failed list, and the loop ends only when every listed target was
\* visited or the cap was reached, whatever failed before;
\* with --max-days fetch_lightning_raw writes at most that many day files.
C30_FetchIsResumable ==
    /\ ExistingUntouched
    /\ LightningResumable
    /\ CloudResumable

\* a lightning run with --max-days 2 that skipped an existing day file,
\* failed on the next day and went on to download two later days
C30_Witness ==
    /\ job.script = FetchLightning
    /\ job.pc = "done"
    /\ job.cap = PyInt(2)
    /\ job.days.skipped = 1
    /\ Len(job.days.failed) = 1
    /\ job.days.downloaded = 2
    /\ job.requests[1] \in FailedOf(job.days)

=============================================================================
